---- MODULE Spec2Model ----
(***************************************************************************)
(* A model of the ators attribute engine: the slot protocol of a record    *)
(* instance (read / write / delete / freeze / init), the validator engine  *)
(* (strict validation with its coercion fallback) and the concurrent       *)
(* access to the slot array.                                               *)
(***************************************************************************)
EXTENDS Integers, Sequences, FiniteSets, TLC

(***************************************************************************)
(* Bounds of the model.                                                    *)
(***************************************************************************)
\* number of members declared by the record type under study
NMembers == 1
\* integers (and numeric strings) offered as inputs are 1..MaxInt
MaxInt == 2
\* longest keyword-argument list handed to init_ators
MaxKwargs == 1
\* number of threads that work on the instance at the same time
NThreads == 2
\* longest container, longest fixed Tuple validator and longest Union offered
\* to the validator engine
MaxLen == 2

(***************************************************************************)
(* Python values.  A value is an object: `id` is 1 for an object handed in *)
(* by the caller and 0 for an object built by the engine (a coerced value, *)
(* a rebuilt container), so that `is` (identity) is record equality.       *)
(* kind "str" with n >= 1 is the decimal string of n; n = 0 is a string    *)
(* that is not a number.                                                   *)
(***************************************************************************)
Obj(id, kind, n, items) == [id |-> id, kind |-> kind, n |-> n, items |-> items]
IntObj(n) == Obj(1, "int", n, <<>>)
StrObj(n) == Obj(1, "str", n, <<>>)
ListObj == Obj(1, "list", 0, <<>>)
\* Option::None of a slot, of `current`, of a missing result
Unset == Obj(0, "unset", 0, <<>>)

InputInts == {IntObj(n) : n \in 1..MaxInt}
InputValues == InputInts \cup {StrObj(MaxInt), ListObj}

Is(a, b) == a = b

(***************************************************************************)
(* Errors and results.                                                     *)
(***************************************************************************)
NoErr == [msg |-> "", index |-> 0 - 1, causes |-> <<>>, lengths |-> <<>>]
Error(msg) == [NoErr EXCEPT !.msg = msg]
ErrorAt(msg, index, cause) == [NoErr EXCEPT !.msg = msg, !.index = index, !.causes = <<cause>>]
ErrorGroup(msg, causes) == [NoErr EXCEPT !.msg = msg, !.causes = causes]
\* an error whose message gives the required and the actual length of a tuple
ErrorLengths(msg, required, actual) ==
    [NoErr EXCEPT !.msg = msg, !.lengths = <<required, actual>>]

\* PyResult<value> together with the trace of the engine calls made to get it
Ok(val, log) == [ok |-> TRUE, val |-> val, err |-> NoErr, log |-> log]
Err(err, log) == [ok |-> FALSE, val |-> Unset, err |-> err, log |-> log]

(***************************************************************************)
(* Validators.  A Validator is [tv, vvs, coercer, init_coercer]; its type  *)
(* validator tv is [kind, items] where items holds the child Validators    *)
(* (Tuple: one per position; VarTuple/FrozenSet/Set: none or one; Dict:    *)
(* none or two; Union: the members).  A value validator is [kind, values]. *)
(***************************************************************************)
TypeValidator(kind, items) == [kind |-> kind, items |-> items]
Validator(tv, vvs, coercer, init_coercer) ==
    [tv |-> tv, vvs |-> vvs, coercer |-> coercer, init_coercer |-> init_coercer]
Enum(values) == [kind |-> "Enum", values |-> values]
\* Validator::default / Validator::new with no coercer
Plain(kind) == Validator(TypeValidator(kind, <<>>), <<>>, "None", "None")

\* an entry of the trace of a handler: a call of the validator engine made on
\* the value x (v is the validator or type validator called), or a step of the
\* slot protocol on the slot idx
Event(ev, v, x, init) == [ev |-> ev, idx |-> 0 - 1, v |-> v, x |-> x, init |-> init]
SlotEvent(ev, idx, x, init) ==
    [ev |-> ev, idx |-> idx, v |-> [kind |-> "", items |-> <<>>], x |-> x, init |-> init]

\* Python equality of two primitive values (the hash/eq used by a frozenset)
PyEq(a, b) == a.kind = b.kind /\ a.n = b.n /\ a.items = b.items

\* ValueValidator::validate_value, Enum variant
validate_value(vv, value) ==
    IF \E e \in vv.values : e[1] = value.kind /\ e[2] = value.n
    THEN Ok(value, <<Event("value", vv, value, FALSE)>>)
    ELSE Err(Error("Value not in permitted list"), <<Event("value", vv, value, FALSE)>>)

\* the elements a value yields when iterated as a PySequence
IsSequence(value) == value.kind \in {"tuple", "list", "str"}
SeqItems(value) == IF value.kind = "str" THEN <<value>> ELSE value.items

\* keeps the first of the elements that are equal: building a set from a Vec
RECURSIVE Dedup(_, _)
Dedup(vec, acc) ==
    IF vec = <<>> THEN acc
    ELSE IF \E i \in 1..Len(acc) : PyEq(acc[i], Head(vec))
         THEN Dedup(Tail(vec), acc)
         ELSE Dedup(Tail(vec), Append(acc, Head(vec)))

WithLog(ev, r) == [r EXCEPT !.log = ev \o r.log]

RECURSIVE CoerceValue(_, _, _, _)
RECURSIVE CoerceItems(_, _, _, _, _, _)
RECURSIVE CoerceItemsStep(_, _, _, _, _, _, _)
RECURSIVE CoerceUnion(_, _, _, _, _)
RECURSIVE CoerceUnionStep(_, _, _, _, _, _)

\* the per-element map of Coercer::coerce_value collected into a Vec: it
\* stops at the first element that fails
CoerceItemsStep(c, is_init, tvOf, elems, index, acc, r) ==
    IF r.ok
    THEN CoerceItems(c, is_init, tvOf, elems, index + 1,
                     Ok(Obj(0, "vec", 0, Append(acc.val.items, r.val)), acc.log \o r.log))
    ELSE Err(r.err, acc.log \o r.log)

CoerceItems(c, is_init, tvOf, elems, index, acc) ==
    IF index > Len(elems) THEN acc
    ELSE CoerceItemsStep(c, is_init, tvOf, elems, index, acc,
                         CoerceValue(c, is_init, tvOf[index], elems[index]))

\* the container built from the coerced elements
AsContainer(kind, r) ==
    IF r.ok
    THEN Ok(Obj(0, kind, 0, IF kind \in {"frozenset", "set"} THEN Dedup(r.val.items, <<>>)
                            ELSE r.val.items),
            r.log)
    ELSE r

\* the Tuple, VarTuple, FrozenSet and Set arms of Coercer::coerce_value
CoerceEach(c, is_init, tvOf, value, kind, ev) ==
    IF ~IsSequence(value) THEN Err(Error("not a sequence"), ev)
    ELSE WithLog(ev, AsContainer(kind, CoerceItems(c, is_init, tvOf, SeqItems(value), 1,
                                                   Ok(Obj(0, "vec", 0, <<>>), <<>>))))

\* Validator::coerce_value of a union member: its own coercer for the phase
MemberCoerceValue(m, is_init, value) ==
    IF (IF is_init THEN m.init_coercer ELSE m.coercer) # "None"
    THEN CoerceValue(IF is_init THEN m.init_coercer ELSE m.coercer, is_init, m.tv, value)
    ELSE Err(Error("No coercer defined"), <<>>)

CoerceUnionStep(is_init, members, value, index, acc, r) ==
    IF r.ok THEN Ok(r.val, acc.log \o r.log)
    ELSE CoerceUnion(is_init, members, value, index + 1,
                     Err(ErrorGroup("", Append(acc.err.causes, r.err)), acc.log \o r.log))

\* the Union arm of Coercer::coerce_value
CoerceUnion(is_init, members, value, index, acc) ==
    IF index > Len(members)
    THEN Err(ErrorGroup("Could not coerce value to any member in union", acc.err.causes),
             acc.log)
    ELSE CoerceUnionStep(is_init, members, value, index, acc,
                         MemberCoerceValue(members[index], is_init, value))

\* the type validator of the element at each position of a container
ItemTypes(tv, n) == [i \in 1..n |-> IF tv.kind = "Tuple" THEN tv.items[i].tv ELSE tv.items[1].tv]

\* Coercer::coerce_value, TypeInferred variant
CoerceTypeInferred(c, is_init, tv, value, ev) ==
    CASE tv.kind = "Any" -> Ok(value, ev)
      [] tv.kind = "None" -> Err(Error("Cannot coerce a value to NoneType"), ev)
      [] tv.kind = "Int" ->
            IF value.kind = "int" THEN Ok(value, ev)
            ELSE IF value.kind = "str" /\ value.n >= 1 THEN Ok(Obj(0, "int", value.n, <<>>), ev)
            ELSE Err(Error("int() argument"), ev)
      [] tv.kind = "Str" ->
            IF value.kind = "str" THEN Ok(value, ev)
            ELSE IF value.kind = "int" THEN Ok(Obj(0, "str", value.n, <<>>), ev)
            ELSE Ok(Obj(0, "str", 0, <<>>), ev)
      [] tv.kind = "Tuple" ->
            IF IsSequence(value) /\ Len(SeqItems(value)) # Len(tv.items)
            THEN Err(ErrorLengths("Cannot coerce a tuple into a tuple",
                                  Len(tv.items), Len(SeqItems(value))), ev)
            ELSE CoerceEach(c, is_init, ItemTypes(tv, Len(tv.items)), value, "tuple", ev)
      [] tv.kind \in {"VarTuple", "FrozenSet", "Set"} ->
            IF tv.items = <<>>
            THEN IF IsSequence(value)
                 THEN AsContainer(IF tv.kind = "VarTuple" THEN "tuple"
                                  ELSE IF tv.kind = "Set" THEN "set" ELSE "frozenset",
                                  Ok(Obj(0, "vec", 0, SeqItems(value)), ev))
                 ELSE Err(Error("not a sequence"), ev)
            ELSE CoerceEach(c, is_init, ItemTypes(tv, Len(SeqItems(value))), value,
                            IF tv.kind = "VarTuple" THEN "tuple"
                            ELSE IF tv.kind = "Set" THEN "set" ELSE "frozenset", ev)
      [] tv.kind = "Union" ->
            WithLog(ev, CoerceUnion(is_init, tv.items, value, 1, Err(NoErr, <<>>)))
      [] OTHER -> Err(Error("unsupported"), ev)

CoerceValue(c, is_init, tv, value) ==
    CoerceTypeInferred(c, is_init, tv, value, <<Event("coerce", tv, value, is_init)>>)

RECURSIVE Validate(_, _)
RECURSIVE ValidateFallback(_, _, _)
RECURSIVE StrictValidate(_, _)
RECURSIVE StrictValidateValues(_, _)
RECURSIVE ValidateType(_, _)
RECURSIVE TupleLoop(_, _, _, _, _)
RECURSIVE TupleStep(_, _, _, _, _, _)
RECURSIVE VarTupleLoop(_, _, _, _, _, _)
RECURSIVE VarTupleStep(_, _, _, _, _, _, _)
RECURSIVE CollectLoop(_, _, _, _, _)
RECURSIVE CollectStep(_, _, _, _, _, _)
RECURSIVE DictLoop(_, _, _, _, _, _)
RECURSIVE DictStep(_, _, _, _, _, _, _, _)
RECURSIVE UnionLoop(_, _, _, _, _)
RECURSIVE UnionStep(_, _, _, _, _, _)

\* Option<Vec<..>> validated_items
NoVec == [some |-> FALSE, vec |-> <<>>]
SomeVec(vec) == [some |-> TRUE, vec |-> vec]

\* variant: a Tuple arm that reports the failing position counted from one
TupleStepOneBased(tuple, items, index, validated_items, log, r) ==
    IF r.ok
    THEN TupleLoop(tuple, items, index + 1,
                   IF Is(r.val, tuple.items[index]) THEN validated_items
                   ELSE IF validated_items.some THEN SomeVec(Append(validated_items.vec, r.val))
                   ELSE SomeVec(Append(SubSeq(tuple.items, 1, index - 1), r.val)),
                   log \o r.log)
    ELSE Err(ErrorAt("Failed to validate item", index, r.err), log \o r.log)

\* the body of the loop of the Tuple arm, r being the validated element:
\* validated_items is created at the first element whose validated result is
\* not the element itself, and only such results are pushed
TupleStep(tuple, items, index, validated_items, log, r) ==
    IF r.ok
    THEN IF ~Is(r.val, tuple.items[index])
         THEN IF validated_items.some
              THEN TupleLoop(tuple, items, index + 1,
                             SomeVec(Append(validated_items.vec, r.val)), log \o r.log)
              ELSE TupleLoop(tuple, items, index + 1,
                             SomeVec(Append(SubSeq(tuple.items, 1, index - 1), r.val)),
                             log \o r.log)
         ELSE TupleLoop(tuple, items, index + 1, validated_items, log \o r.log)
    ELSE Err(ErrorAt("Failed to validate item", index - 1, r.err), log \o r.log)

\* the loop of the Tuple arm and the value it returns
TupleLoop(tuple, items, index, validated_items, log) ==
    IF index > Len(items)
    THEN Ok(IF validated_items.some THEN Obj(0, "tuple", 0, validated_items.vec) ELSE tuple,
            log)
    ELSE TupleStep(tuple, items, index, validated_items, log,
                   Validate(items[index], tuple.items[index]))

\* the body of the loop of the VarTuple and FrozenSet arms with an item
\* validator: the validated result is compared (`is`) with `item`, which in
\* these arms is the item validator
VarTupleStep(kind, value, item, index, validated_items, log, r) ==
    IF r.ok
    THEN IF ~Is(r.val, item)
         THEN IF validated_items.some
              THEN VarTupleLoop(kind, value, item, index + 1,
                                SomeVec(Append(validated_items.vec, r.val)), log \o r.log)
              ELSE VarTupleLoop(kind, value, item, index + 1,
                                SomeVec(Append(SubSeq(value.items, 1, index - 1), r.val)),
                                log \o r.log)
         ELSE VarTupleLoop(kind, value, item, index + 1, validated_items, log \o r.log)
    ELSE Err(ErrorAt("Failed to validate item", index - 1, r.err), log \o r.log)

VarTupleLoop(kind, value, item, index, validated_items, log) ==
    IF index > Len(value.items)
    THEN Ok(IF validated_items.some
            THEN Obj(0, kind, 0, IF kind = "frozenset" THEN Dedup(validated_items.vec, <<>>)
                                 ELSE validated_items.vec)
            ELSE value,
            log)
    ELSE VarTupleStep(kind, value, item, index, validated_items, log,
                      Validate(item, value.items[index]))

\* the loop of the Set arm with an item validator: every result is pushed and
\* an AtorsSet is built from them
CollectStep(value, item, index, validated_items, log, r) ==
    IF r.ok
    THEN CollectLoop(value, item, index + 1, Append(validated_items, r.val), log \o r.log)
    ELSE Err(ErrorAt("Failed to validate item", index - 1, r.err), log \o r.log)

CollectLoop(value, item, index, validated_items, log) ==
    IF index > Len(value.items)
    THEN Ok(Obj(0, "AtorsSet", 0, Dedup(validated_items, <<>>)), log)
    ELSE CollectStep(value, item, index, validated_items, log,
                     Validate(item, value.items[index]))

\* the loop of the Dict arm with key and value validators; an entry of a dict
\* is a "pair" object <<key, value>>
DictStep(value, key_v, val_v, index, validated_items, log, k, v) ==
    IF k.ok /\ v.ok
    THEN DictLoop(value, key_v, val_v, index + 1,
                  Append(validated_items, Obj(0, "pair", 0, <<k.val, v.val>>)),
                  log \o k.log \o v.log)
    ELSE IF ~k.ok THEN Err(ErrorAt("Failed to validate key", index - 1, k.err),
                           log \o k.log \o v.log)
    ELSE Err(ErrorAt("Failed to validate value", index - 1, v.err), log \o k.log \o v.log)

DictLoop(value, key_v, val_v, index, validated_items, log) ==
    IF index > Len(value.items)
    THEN Ok(Obj(0, "AtorsDict", 0, validated_items), log)
    ELSE DictStep(value, key_v, val_v, index, validated_items, log,
                  Validate(key_v, value.items[index].items[1]),
                  Validate(val_v, value.items[index].items[2]))

\* variant: a Union arm that tries its members from the last to the first
UnionLoopReversed(members, value, index, err, log) ==
    IF index > Len(members)
    THEN Err(ErrorGroup("Value is not valid for any member of the union", err), log)
    ELSE UnionStep(members, value, index, err, log,
                   Validate(members[Len(members) + 1 - index], value))

\* the loop of the Union arm
UnionStep(members, value, index, err, log, r) ==
    IF r.ok THEN Ok(r.val, log \o r.log)
    ELSE UnionLoop(members, value, index + 1, Append(err, r.err), log \o r.log)

UnionLoop(members, value, index, err, log) ==
    IF index > Len(members)
    THEN Err(ErrorGroup("Value is not valid for any member of the union", err), log)
    ELSE UnionStep(members, value, index, err, log, Validate(members[index], value))

\* the arms of TypeValidator::validate_type
ValidateTypeArm(tv, value, ev) ==
    CASE tv.kind = "Any" -> Ok(value, ev)
      [] tv.kind \in {"None", "Int", "Str"} ->
            IF value.kind = (IF tv.kind = "None" THEN "none"
                             ELSE IF tv.kind = "Int" THEN "int" ELSE "str")
            THEN Ok(value, ev)
            ELSE Err(Error("validation_error"), ev)
      [] tv.kind = "Tuple" ->
            IF value.kind # "tuple" THEN Err(Error("validation_error"), ev)
            ELSE IF Len(value.items) # Len(tv.items)
                 THEN Err(ErrorLengths("Expected a tuple of length, got a tuple of length",
                                       Len(tv.items), Len(value.items)), ev)
                 ELSE WithLog(ev, TupleLoop(value, tv.items, 1, NoVec, <<>>))
      [] tv.kind \in {"VarTuple", "FrozenSet"} ->
            IF value.kind # (IF tv.kind = "VarTuple" THEN "tuple" ELSE "frozenset")
            THEN Err(Error("validation_error"), ev)
            ELSE IF tv.items = <<>> THEN Ok(value, ev)
                 ELSE WithLog(ev, VarTupleLoop(value.kind, value, tv.items[1], 1, NoVec, <<>>))
      [] tv.kind = "Set" ->
            IF value.kind \notin {"set", "AtorsSet"} THEN Err(Error("validation_error"), ev)
            ELSE IF tv.items = <<>> THEN Ok(Obj(0, "set", 0, value.items), ev)
                 ELSE WithLog(ev, CollectLoop(value, tv.items[1], 1, <<>>, <<>>))
      [] tv.kind = "Dict" ->
            IF value.kind \notin {"dict", "AtorsDict"} THEN Err(Error("validation_error"), ev)
            ELSE IF tv.items = <<>>
                 THEN \* PyDict::from_sequence iterates the KEYS of the dict and wants
                      \* each of them to be a pair: a key that is a number or a
                      \* one-character string is rejected
                      IF value.items = <<>> THEN Ok(Obj(0, "dict", 0, <<>>), ev)
                      ELSE Err(Error("cannot convert dictionary update sequence element"), ev)
                 ELSE WithLog(ev, DictLoop(value, tv.items[1], tv.items[2], 1, <<>>, <<>>))
      [] tv.kind = "Union" -> WithLog(ev, UnionLoop(tv.items, value, 1, <<>>, <<>>))
      [] OTHER -> Err(Error("unsupported"), ev)

\* TypeValidator::validate_type
ValidateType(tv, value) == ValidateTypeArm(tv, value, <<Event("type", tv, value, FALSE)>>)

\* the loop of Validator::strict_validate over the value validators
RECURSIVE ValueValidators(_, _, _, _)
ValueValidatorsStep(vvs, index, v, log, r) ==
    IF r.ok THEN ValueValidators(vvs, index + 1, v, log \o r.log)
    ELSE Err(r.err, log \o r.log)

ValueValidators(vvs, index, v, log) ==
    IF index > Len(vvs) THEN Ok(v, log)
    ELSE ValueValidatorsStep(vvs, index, v, log, validate_value(vvs[index], v))

StrictValidateValues(validator, t) ==
    IF ~t.ok THEN t ELSE ValueValidators(validator.vvs, 1, t.val, t.log)

\* Validator::strict_validate
StrictValidate(validator, value) ==
    StrictValidateValues(validator, ValidateType(validator.tv, value))

\* variant: a coercion fallback that runs strict validation on the coerced value
CoercedStrict(validator, failed, c) ==
    IF c.ok
    THEN WithLog(failed \o Append(c.log, Event("coerced", validator.tv, c.val, FALSE)),
                 StrictValidate(validator, c.val))
    ELSE Err(c.err, failed \o c.log)

ValidateFallbackStrict(validator, value, s) ==
    IF s.ok THEN Ok(s.val, <<Event("validate", validator, value, FALSE)>> \o s.log)
    ELSE IF validator.coercer # "None"
         THEN CoercedStrict(validator,
                            <<Event("validate", validator, value, FALSE)>>
                                \o Append(s.log, Event("strict_err", validator, value, FALSE)),
                            CoerceValue(validator.coercer, FALSE, validator.tv, value))
         ELSE Err(s.err, <<Event("validate", validator, value, FALSE)>>
                             \o Append(s.log, Event("strict_err", validator, value, FALSE)))

\* the result of the coercion fallback of Validator::validate
Coerced(tv, failed, c) ==
    IF c.ok THEN Ok(c.val, failed \o Append(c.log, Event("coerced", tv, c.val, FALSE)))
    ELSE Err(c.err, failed \o c.log)

ValidateFallback(validator, value, s) ==
    IF s.ok THEN Ok(s.val, <<Event("validate", validator, value, FALSE)>> \o s.log)
    ELSE IF validator.coercer # "None"
         THEN Coerced(validator.tv,
                      <<Event("validate", validator, value, FALSE)>>
                          \o Append(s.log, Event("strict_err", validator, value, FALSE)),
                      CoerceValue(validator.coercer, FALSE, validator.tv, value))
         ELSE Err(s.err, <<Event("validate", validator, value, FALSE)>>
                             \o Append(s.log, Event("strict_err", validator, value, FALSE)))

\* Validator::validate: strict validation, then the coercer as a fallback
Validate(validator, value) ==
    ValidateFallback(validator, value, StrictValidate(validator, value))

(***************************************************************************)
(* The slot protocol: Member::__get__ / __set__ / __delete__, freeze and   *)
(* init_ators on one AtorsBase instance.                                   *)
(***************************************************************************)
VARIABLES
    members,     \* __ators_members__ of the type: slot index -> Member
    mutability,  \* __ators_members_mutability__ of the type
    obj,         \* the AtorsBase instance: [frozen, slots]
    last,        \* the outcome of the latest operation on the instance
    trace,       \* the engine calls of the latest operation, when tracing is on
    served,      \* per member, what the history of the slot is (see Served)
    vin,         \* the validator and the value handed to Validator::validate
    vout,        \* the result validate returned for vin
    threads,     \* per thread, the operation under way and its position in it
    cs,          \* the thread inside the critical section of the instance, or 0
    flag,        \* the borrow flag of the instance's cell
    races,       \* whether a store into a slot began during another store into
                 \* it, the <<slot, value>> of the stores completed so far, and
                 \* the history of the defaulting reads and of the writes
    classes,     \* the record types constructed so far, by type id
    descriptors, \* the Member objects allocated so far, by object id
    made,        \* the outcome of the latest construction of a type or instance
    late         \* one LateResolvedValidator: its cell and its resolutions

Indexes == 0..(NMembers - 1)

Member(slot_index, pre_getattr, post_getattr, pre_setattr, post_setattr, delattr, default, validator) ==
    [slot_index |-> slot_index, pre_getattr |-> pre_getattr, post_getattr |-> post_getattr,
     pre_setattr |-> pre_setattr, post_setattr |-> post_setattr, delattr |-> delattr,
     default |-> default, validator |-> validator]

\* the value of DefaultBehavior::Static
StaticValue == IntObj(1)

\* variant: a py_new that makes one slot per index of 1..slots_count
py_new_short(slots_count) ==
    [frozen |-> FALSE, slots |-> [i \in 0..(slots_count - 2) |-> Unset]]

\* AtorsBase::py_new: one slot per index of 0..=slots_count
py_new(slots_count) == [frozen |-> FALSE, slots |-> [i \in 0..slots_count |-> Unset]]

get_slot(object, index) == object.slots[index]
set_slot(object, index, value) == [object EXCEPT !.slots[index] = value]
del_slot(object, index) == [object EXCEPT !.slots[index] = Unset]

\* what the host callbacks do during one handler call: TRUE is a normal
\* return, FALSE an exception; dflt is the value a default callable returns
\* (Unset: it raises).  A hook that is no callback, or that the handler does
\* not reach, has no outcome to choose.
Bools(is_called) == IF is_called THEN BOOLEAN ELSE {TRUE}
GetOutcomes(m, object) ==
    [pre_get : Bools(m.pre_getattr # "NoOp"), post_get : Bools(m.post_getattr # "NoOp"),
     dflt : IF m.default = "Call" /\ object.slots[m.slot_index] = Unset
            THEN InputValues \cup {Unset} ELSE {Unset}]
SetOutcomes(ms, object) ==
    [pre_set : Bools(~object.frozen /\ \E m \in ms : m.pre_setattr = "ObjectMethod"),
     post_set : Bools(~object.frozen /\ \E m \in ms : m.post_setattr # "NoOp")]
\* the second setattr of init_ators is reached for a member with an init coercer
RetryOutcomes(ms, object) ==
    SetOutcomes({m \in ms : m.validator.init_coercer # "None"}, object)

\* the result of a handler: the instance as it leaves it, PyResult, the number
\* of calls of the default strategy and the trace of the engine calls
Outcome(object, ok, val, err, dcalls, log) ==
    [obj |-> object, ok |-> ok, val |-> val, err |-> err, dcalls |-> dcalls, log |-> log]

pre_get(behavior, h) == behavior = "NoOp" \/ h.pre_get
post_get(behavior, h) == behavior = "NoOp" \/ h.post_get
post_set(behavior, h) == behavior = "NoOp" \/ h.post_set

\* variant: a pre-write hook whose ReadOnly variant accepts whatever the slot holds
pre_set_lenient(behavior, current, h) ==
    CASE behavior = "Constant" -> FALSE
      [] behavior = "ObjectMethod" -> h.pre_set
      [] OTHER -> TRUE

\* PreSetattrBehavior::pre_set
pre_set(behavior, current, h) ==
    CASE behavior = "NoOp" -> TRUE
      [] behavior = "Constant" -> FALSE
      [] behavior = "ReadOnly" -> current = Unset
      [] OTHER -> h.pre_set

\* variant: a NoDefault strategy that hands out the static value
default_static(m, h) ==
    CASE m.default \in {"NoDefault", "Static"} -> Ok(StaticValue, <<>>)
      [] OTHER -> IF h.dflt = Unset THEN Err(Error("default callable raised"), <<>>)
                  ELSE Ok(h.dflt, <<>>)

\* DefaultBehavior::default
default(m, h) ==
    CASE m.default = "NoDefault" -> Err(Error("value is unset and has no default"), <<>>)
      [] m.default = "Static" -> Ok(StaticValue, <<>>)
      [] OTHER -> IF h.dflt = Unset THEN Err(Error("default callable raised"), <<>>)
                  ELSE Ok(h.dflt, <<>>)

\* variant: __get__ that returns the validated default without storing it
MemberGetNoStore(m, object, h, new) ==
    IF ~new.ok THEN Outcome(object, FALSE, Unset, "validate-default", 1, new.log)
    ELSE IF post_get(m.post_getattr, h)
    THEN Outcome(object, TRUE, new.val, "", 1, new.log)
    ELSE Outcome(object, FALSE, Unset, "post-get", 1, new.log)

\* Member::__get__, from the validated default on: store it, run post-get
MemberGetStore(m, object, h, new) ==
    IF ~new.ok THEN Outcome(object, FALSE, Unset, "validate-default", 1, new.log)
    ELSE IF post_get(m.post_getattr, h)
    THEN Outcome(set_slot(object, m.slot_index, new.val), TRUE, new.val, "", 1,
                 Append(new.log, SlotEvent("store", m.slot_index, new.val, FALSE)))
    ELSE Outcome(set_slot(object, m.slot_index, new.val), FALSE, Unset, "post-get", 1,
                 Append(new.log, SlotEvent("store", m.slot_index, new.val, FALSE)))

\* Member::__get__, from the result of the default strategy on
MemberGetDefault(m, object, h, d) ==
    IF ~d.ok THEN Outcome(object, FALSE, Unset, "default", 1, <<>>)
    ELSE MemberGetStore(m, object, h, Validate(m.validator, d.val))

\* Member::__get__ on an instance
MemberGet(m, object, h) ==
    IF ~pre_get(m.pre_getattr, h) THEN Outcome(object, FALSE, Unset, "pre-get", 0, <<>>)
    ELSE IF get_slot(object, m.slot_index) # Unset
    THEN IF post_get(m.post_getattr, h)
         THEN Outcome(object, TRUE, get_slot(object, m.slot_index), "", 0, <<>>)
         ELSE Outcome(object, FALSE, Unset, "post-get", 0, <<>>)
    ELSE MemberGetDefault(m, object, h, default(m, h))

\* the pair (current, new) handed to the post-write hook
Pair(current, new) == Obj(0, "pair", 0, <<current, new>>)

\* the steps of Member::__set__ from set_slot on: the store, then post_set
\* called with the value get_slot returned and the validated value
StoreSteps(m, object, new) ==
    <<SlotEvent("store", m.slot_index, new.val, FALSE),
      SlotEvent("post_set", m.slot_index, Pair(get_slot(object, m.slot_index), new.val), FALSE)>>

\* variant: __set__ that puts the old value back when the post-write hook fails
MemberSetRollback(m, object, h, ev, new) ==
    IF ~new.ok THEN Outcome(object, FALSE, Unset, "validation", 0, ev \o new.log)
    ELSE IF post_set(m.post_setattr, h)
    THEN Outcome(set_slot(object, m.slot_index, new.val), TRUE, Unset, "", 0,
                 ev \o new.log \o StoreSteps(m, object, new)
                    \o <<SlotEvent("set_ok", m.slot_index, new.val, FALSE)>>)
    ELSE Outcome(object, FALSE, Unset, "post-set", 0,
                 ev \o new.log \o StoreSteps(m, object, new))

\* Member::__set__, from the validated value on: store it, run post-set
MemberSetStore(m, object, h, ev, new) ==
    IF ~new.ok THEN Outcome(object, FALSE, Unset, "validation", 0, ev \o new.log)
    ELSE IF post_set(m.post_setattr, h)
    THEN Outcome(set_slot(object, m.slot_index, new.val), TRUE, Unset, "", 0,
                 ev \o new.log \o StoreSteps(m, object, new)
                    \o <<SlotEvent("set_ok", m.slot_index, new.val, FALSE)>>)
    ELSE Outcome(set_slot(object, m.slot_index, new.val), FALSE, Unset, "post-set", 0,
                 ev \o new.log \o StoreSteps(m, object, new))

\* variant: __set__ without the check of the frozen bit
MemberSetUnchecked(m, object, value, h, ev) ==
    IF ~pre_set(m.pre_setattr, get_slot(object, m.slot_index), h)
    THEN Outcome(object, FALSE, Unset, "pre-set", 0, ev)
    ELSE MemberSetStore(m, object, h, ev, Validate(m.validator, value))

\* the steps of Member::__set__ before the value is validated: the check of
\* the frozen bit, pre_set called with the value get_slot returned, and the
\* call of the validator on the incoming value
FrozenStep(m) == SlotEvent("is_frozen", m.slot_index, Unset, FALSE)
PreSetStep(m, object) ==
    SlotEvent("pre_set", m.slot_index, get_slot(object, m.slot_index), FALSE)
ValidatorStep(m, value) == SlotEvent("validator", m.slot_index, value, FALSE)

\* variant: __set__ that runs the pre-write hook before it checks the frozen bit
MemberSetHookFirst(m, object, value, h, ev) ==
    IF ~pre_set(m.pre_setattr, get_slot(object, m.slot_index), h)
    THEN Outcome(object, FALSE, Unset, "pre-set", 0, Append(ev, PreSetStep(m, object)))
    ELSE IF object.frozen
    THEN Outcome(object, FALSE, Unset, "frozen", 0,
                 ev \o <<PreSetStep(m, object), FrozenStep(m)>>)
    ELSE MemberSetStore(m, object, h,
                        ev \o <<PreSetStep(m, object), FrozenStep(m), ValidatorStep(m, value)>>,
                        Validate(m.validator, value))

\* Member::__set__, the checks made before the value is validated
MemberSetChecks(m, object, value, h, ev) ==
    IF object.frozen THEN Outcome(object, FALSE, Unset, "frozen", 0, Append(ev, FrozenStep(m)))
    ELSE IF ~pre_set(m.pre_setattr, get_slot(object, m.slot_index), h)
    THEN Outcome(object, FALSE, Unset, "pre-set", 0,
                 ev \o <<FrozenStep(m), PreSetStep(m, object)>>)
    ELSE MemberSetStore(m, object, h,
                        ev \o <<FrozenStep(m), PreSetStep(m, object), ValidatorStep(m, value)>>,
                        Validate(m.validator, value))

\* Member::__set__: get_slot, then the checks
MemberSet(m, object, value, h) ==
    MemberSetChecks(m, object, value, h,
                    <<SlotEvent("set", m.slot_index, value, FALSE),
                      SlotEvent("get_slot", m.slot_index, get_slot(object, m.slot_index), FALSE)>>)

\* variant: a slot-clearing delete that returns without clearing the slot
MemberDeleteKeep(m, object) ==
    IF m.delattr = "Slot"
    THEN Outcome(object, TRUE, Unset, "", 0, <<>>)
    ELSE Outcome(object, FALSE, Unset, "undeletable", 0, <<>>)

\* DelattrBehavior::del, reached from Member::__delete__
MemberDelete(m, object) ==
    IF m.delattr = "Slot"
    THEN Outcome(del_slot(object, m.slot_index), TRUE, Unset, "", 0, <<>>)
    ELSE Outcome(object, FALSE, Unset, "undeletable", 0, <<>>)

\* is_object_mutable of a stored value
is_object_mutable(value) == value.kind \in {"list", "set", "dict", "AtorsSet", "AtorsDict"}

\* ClassMutability
ClassMutability(kind, values) == [kind |-> kind, values |-> values]

\* freeze
Freeze(ms, mut, object) ==
    CASE mut.kind = "Immutable" ->
            Outcome([object EXCEPT !.frozen = TRUE], TRUE, Unset, "", 0, <<>>)
      [] mut.kind = "Mutable" -> Outcome(object, FALSE, Unset, "mutable member types", 0, <<>>)
      [] OTHER ->
            IF \E i \in mut.values :
                   /\ get_slot(object, ms[i].slot_index) # Unset
                   /\ is_object_mutable(get_slot(object, ms[i].slot_index))
            THEN Outcome(object, FALSE, Unset, "potentially mutable value", 0, <<>>)
            ELSE Outcome([object EXCEPT !.frozen = TRUE], TRUE, Unset, "", 0, <<>>)

\* the coercion made by member_coerce_init for a member that has an init coercer
InitCoerced(tv, c) ==
    IF c.ok THEN Ok(c.val, Append(c.log, Event("coerced", tv, c.val, TRUE))) ELSE c

\* member_coerce_init: None (here a failure without a message) when the
\* member has no init coercer
member_coerce_init(m, value) ==
    IF m.validator.init_coercer = "None" THEN Err(NoErr, <<>>)
    ELSE InitCoerced(m.validator.tv,
                     CoerceValue(m.validator.init_coercer, TRUE, m.validator.tv, value))

RECURSIVE init_ators(_, _, _, _, _)
RECURSIVE init_ators_setattr(_, _, _, _, _)
RECURSIVE init_ators_coerce(_, _, _, _, _, _)
RECURSIVE init_ators_retry(_, _, _, _, _)

\* init_ators, from the second setattr (of the coerced value) on
init_ators_retry(ms, kwargs, hs, log, t) ==
    IF t.ok THEN init_ators(ms, t.obj, Tail(kwargs), hs, log \o t.log)
    ELSE Outcome(t.obj, FALSE, Unset, t.err, 0, log \o t.log)

\* init_ators, from the result of member_coerce_init on
init_ators_coerce(ms, kwargs, hs, log, object, r) ==
    IF ~r.ok THEN Outcome(object, FALSE, Unset, "init-coercion", 0, log \o r.log)
    ELSE init_ators_retry(ms, kwargs, hs, log \o r.log,
                          MemberSet(ms[Head(kwargs)[1]], object, r.val, hs[2]))

\* init_ators, from the result of the first setattr on
init_ators_setattr(ms, kwargs, hs, log, s) ==
    IF s.ok THEN init_ators(ms, s.obj, Tail(kwargs), hs, log \o s.log)
    ELSE IF ms[Head(kwargs)[1]].validator.init_coercer = "None"
    THEN Outcome(s.obj, FALSE, Unset, s.err, 0, log \o s.log)
    ELSE init_ators_coerce(ms, kwargs, hs, log \o s.log, s.obj,
                           member_coerce_init(ms[Head(kwargs)[1]], Head(kwargs)[2]))

\* init_ators: kwargs is a sequence of <<slot index of the name, value>>; hs[1]
\* is what the callbacks do in the first setattr of a name, hs[2] in the second
init_ators(ms, object, kwargs, hs, log) ==
    IF kwargs = <<>> THEN Outcome(object, TRUE, Unset, "", 0, log)
    ELSE init_ators_setattr(ms, kwargs, hs,
                            Append(log, SlotEvent("kwarg", Head(kwargs)[1], Head(kwargs)[2],
                                                  TRUE)),
                            MemberSet(ms[Head(kwargs)[1]], object, Head(kwargs)[2], hs[1]))

(***************************************************************************)
(* The record type under study and the actions of the slot protocol.       *)
(***************************************************************************)
IntValidator == Validator(TypeValidator("Int", <<>>), <<>>, "None", "None")
\* a member declared without annotation: every hook NoOp, validator Any
PlainMember(i) == Member(i, "NoOp", "NoOp", "NoOp", "NoOp", "Slot", "Static", Plain("Any"))

\* member 0 takes every combination of pre-write hook, delete strategy and
\* default strategy; its other hooks are host callbacks, whose outcome is open
\* at every call (a NoOp hook is the callback that always returns)
HookMembers ==
    {Member(0, "ObjectMethod", "ObjectMethod", c, "ObjectMethod", e, f, IntValidator) :
        c \in {"NoOp", "Constant", "ReadOnly", "ObjectMethod"},
        e \in {"Slot", "Undeletable"},
        f \in {"NoDefault", "Static", "Call"}}

\* member 0 takes every combination of value validators and coercers
CoerceMembers ==
    {Member(0, "NoOp", "NoOp", c, d, "Slot", "Static",
            Validator(TypeValidator("Int", <<>>), vvs, co, ico)) :
        c \in {"NoOp", "Constant", "ReadOnly"}, d \in {"NoOp", "ObjectMethod"},
        vvs \in {<<>>, <<Enum({<<"int", 1>>})>>},
        co \in {"None", "TypeInferred"}, ico \in {"None", "TypeInferred"}}

TypeOf(m0) == [i \in Indexes |-> IF i = 0 THEN m0 ELSE PlainMember(i)]

NoServed == [val |-> Unset, dirty |-> FALSE, written |-> FALSE]
\* the number of writes (calls of Member::__set__) in the trace of a handler
Writes(log) == Cardinality({k \in 1..Len(log) : log[k].ev = "set"})

\* the trace of a handler holds the steps of the write protocol among the
\* calls of the validator engine: Steps keeps the former, Engine the latter
\* (with the start of each write and its store)
StepNames == {"get_slot", "is_frozen", "pre_set", "validator", "store", "post_set"}
IsStep(e) == e.ev \in StepNames
IsEngine(e) == e.ev \notin (StepNames \ {"store"})
Steps(log) == SelectSeq(log, IsStep)
Engine(log) == SelectSeq(log, IsEngine)

NoOutcome == [op |-> "new", idx |-> 0 - 1, ok |-> TRUE, val |-> Unset, err |-> "",
              dcalls |-> 0, writes |-> 0, steps |-> <<>>]
Result(op, idx, r) ==
    [op |-> op, idx |-> idx, ok |-> r.ok, val |-> r.val, err |-> r.err, dcalls |-> r.dcalls,
     writes |-> Writes(r.log), steps |-> IF op = "set" THEN Steps(r.log) ELSE <<>>]
Tracing(on) == [on |-> on, log |-> <<>>]

\* the validator engine at rest
NoInput == [validator |-> Plain("Any"), value |-> Unset]
NoResult == Ok(Unset, <<>>)
\* no thread, nobody in the critical section, the cell not borrowed
NoThreads == <<>>
NoFlag == [shared |-> 0, exclusive |-> FALSE]
\* defaults counts the calls of the default strategy made by reads, defaulted
\* holds the values such reads returned, since the last write or delete
\* returned; written holds the slots a write has succeeded on with no delete
\* succeeding since
NoRaces == [overlap |-> FALSE, stored |-> {}, defaults |-> 0, defaulted |-> {}, written |-> {}]

\* no type constructed, no Member allocated, no forward reference resolved
NoMade ==
    [op |-> "none", ok |-> TRUE, err |-> [kind |-> "", member |-> 0, behavior |-> ""],
     cls |-> 0, bases |-> <<>>, frozen |-> FALSE, builders |-> <<>>, functions |-> {},
     mro |-> [ok |-> TRUE, mro |-> <<>>, log |-> <<>>], object |-> [frozen |-> FALSE, slots |-> <<>>]]
\* LateResolvedValidator::new: an empty cell; built is the resolution that
\* filled the cell, running the thread that runs the closure, callers the
\* threads and the call each is in, seen the outcomes the calls returned
NoLate ==
    [cell |-> "uninit", built |-> 0, running |-> 0, resolutions |-> 0,
     callers |-> [t \in 1..NThreads |-> [pc |-> "idle", op |-> "", calls |-> 0, closure |-> 0]],
     seen |-> <<>>]
typeVars == <<classes, descriptors, made, late>>
NoTypes == classes = <<>> /\ descriptors = <<>> /\ made = NoMade /\ late = NoLate

vars == <<members, mutability, obj, last, trace, served, vin, vout, threads, cs, flag, races,
          classes, descriptors, made, late>>

InitSlots(configs, mutabilities, tracing) ==
    /\ members \in {TypeOf(m0) : m0 \in configs}
    /\ mutability \in mutabilities
    /\ obj = py_new(NMembers)
    /\ last = NoOutcome
    /\ trace = Tracing(tracing)
    /\ served = [i \in Indexes |-> NoServed]
    /\ vin = NoInput
    /\ vout = NoResult
    /\ threads = NoThreads
    /\ cs = 0
    /\ flag = NoFlag
    /\ races = NoRaces
    /\ NoTypes

HasEvent(log, ev, i) == \E k \in 1..Len(log) : log[k].ev = ev /\ log[k].idx = i

\* the history of slot i after the handler `op` returned r: val is the value
\* a successful defaulting read materialized in it (Unset once a write or a
\* delete of the slot has succeeded), dirty tells that a write which failed
\* has stored a value since, written that a write has succeeded and no
\* delete has succeeded since
Served(i, idx, r, op) ==
    CASE op = "get" /\ i = idx /\ r.ok /\ r.dcalls > 0 ->
            [served[i] EXCEPT !.val = r.val, !.dirty = FALSE]
      [] op = "del" /\ i = idx /\ r.ok -> NoServed
      [] op \in {"set", "init"} /\ HasEvent(r.log, "set_ok", i) ->
            [val |-> Unset, dirty |-> FALSE, written |-> TRUE]
      [] op \in {"set", "init"} /\ HasEvent(r.log, "store", i) /\ served[i].val # Unset ->
            [served[i] EXCEPT !.dirty = TRUE]
      [] OTHER -> served[i]

\* a handler returned r: the instance and the bookkeeping after it
Done(op, idx, r) ==
    /\ obj' = r.obj
    /\ last' = Result(op, idx, r)
    /\ trace' = [trace EXCEPT !.log = IF trace.on THEN Engine(r.log) ELSE <<>>]
    /\ served' = [i \in Indexes |-> Served(i, idx, r, op)]
    /\ UNCHANGED <<members, mutability, vin, vout, threads, cs, flag, races, typeVars>>

Get(i) ==
    \E h \in GetOutcomes(members[i], obj) : Done("get", i, MemberGet(members[i], obj, h))

Set(i, value) ==
    \E h \in SetOutcomes({members[i]}, obj) : Done("set", i, MemberSet(members[i], obj, value, h))

Delete(i) == Done("del", i, MemberDelete(members[i], obj))

DoFreeze == Done("freeze", 0 - 1, Freeze(members, mutability, obj))

\* keyword arguments: at most MaxKwargs names, each given once
RECURSIVE KwargsOfLen(_)
KwargsOfLen(n) ==
    IF n = 0 THEN {<<>>}
    ELSE {Append(k, <<i, v>>) : k \in KwargsOfLen(n - 1), i \in Indexes, v \in InputValues}
\* keyword arguments name distinct attributes; they are taken in index order
DistinctKeys(kwargs) ==
    \A a, b \in 1..Len(kwargs) : a < b => kwargs[a][1] < kwargs[b][1]
Kwargs == {k \in UNION {KwargsOfLen(n) : n \in 0..MaxKwargs} : DistinctKeys(k)}

KwargMembers(kwargs) == {members[kwargs[k][1]] : k \in 1..Len(kwargs)}

InitAtors(kwargs) ==
    \E h1 \in SetOutcomes(KwargMembers(kwargs), obj),
       h2 \in RetryOutcomes(KwargMembers(kwargs), obj) :
        Done("init", 0 - 1, init_ators(members, obj, kwargs, <<h1, h2>>, <<>>))

SlotNext ==
    \/ \E i \in Indexes : Get(i)
    \/ \E i \in Indexes, value \in InputValues : Set(i, value)
    \/ \E i \in Indexes : Delete(i)
    \/ DoFreeze
    \/ \E kwargs \in Kwargs : InitAtors(kwargs)

Init ==
    InitSlots(HookMembers, {ClassMutability("Immutable", {}), ClassMutability("Mutable", {}),
                            ClassMutability("InspectValues", Indexes)}, FALSE)
Next == SlotNext
Spec == Init /\ [][Next]_vars

InitCoerce == InitSlots(CoerceMembers, {ClassMutability("InspectValues", Indexes)}, TRUE)
SpecCoerce == InitCoerce /\ [][Next]_vars

(***************************************************************************)
(* Properties of the slot protocol.                                        *)
(***************************************************************************)
\* a read of slot i that follows a successful read which materialized the
\* Static default of i, no write or delete of i having succeeded since
LaterRead(i) ==
    /\ members[i].default = "Static"
    /\ served[i].val # Unset
    /\ last'.op = "get" /\ last'.idx = i

\* C1 (as stated): after a read of an unset slot with a Static default has
\* succeeded, every later read of the attribute with no successful write or
\* delete in between does not call the default strategy and, when it returns
\* a value, returns the materialized one.
C1_AsStated ==
    [][\A i \in Indexes :
            LaterRead(i) => last'.dcalls = 0 /\ (last'.ok => Is(last'.val, served[i].val))]_vars

\* C1 (amended): the same, for every later read with no successful delete
\* and no write that stored a value (whether or not the write then failed in
\* its post-write hook) in between.
C1_StaticDefaultOnce ==
    [][\A i \in Indexes :
            LaterRead(i) /\ ~served[i].dirty
                => last'.dcalls = 0 /\ (last'.ok => Is(last'.val, served[i].val))]_vars

\* a second read has returned the value the first read materialized
C1_Witness ==
    \E i \in Indexes :
        /\ members[i].default = "Static"
        /\ served[i].val # Unset /\ ~served[i].dirty
        /\ last.op = "get" /\ last.idx = i /\ last.ok /\ last.dcalls = 0
        /\ Is(last.val, served[i].val)

\* C2: with the ReadOnly pre-write hook, a write to an unset slot is accepted
\* by the hook (it succeeds unless the instance is frozen, the value invalid
\* or the post-write hook fails), and once a write has succeeded every write
\* fails and leaves the slot alone until a delete of the slot succeeds; a
\* rejected delete changes nothing of this.
C2_ReadOnly ==
    [][\A i \in Indexes :
            members[i].pre_setattr = "ReadOnly" /\ last'.op = "set" /\ last'.idx = i
                => /\ get_slot(obj, i) = Unset
                        => last'.ok \/ last'.err \in {"frozen", "validation", "post-set"}
                   /\ served[i].written
                        => ~last'.ok /\ obj' = obj /\ served'[i].written
                   /\ get_slot(obj, i) # Unset /\ ~obj.frozen => last'.err = "pre-set"]_vars

\* a write has been rejected by the ReadOnly hook after an earlier write
\* succeeded
C2_Witness ==
    \E i \in Indexes :
        /\ members[i].pre_setattr = "ReadOnly"
        /\ served[i].written
        /\ last.op = "set" /\ last.idx = i /\ ~last.ok /\ last.err = "pre-set"

\* C3: a write to a frozen instance fails and leaves every slot as it was,
\* be it a plain write or a keyword argument of init_ators.
C3_FrozenWriteFails ==
    [][obj.frozen /\ last'.op \in {"set", "init"} /\ last'.writes > 0
            => ~last'.ok /\ obj'.slots = obj.slots]_vars

\* a write to a frozen instance whose slot holds a value has failed
C3_Witness ==
    /\ obj.frozen
    /\ last.op = "set" /\ ~last.ok /\ last.err = "frozen"
    /\ get_slot(obj, last.idx) # Unset

\* C4: once the instance is frozen, no read, write or delete changes the
\* content of a slot.
C4_FrozenSlotsStable ==
    [][obj.frozen /\ last'.op \in {"get", "set", "del"} => obj'.slots = obj.slots]_vars

\* the errors of __get__ whose message holds the name of the member and the
\* repr of the instance
GetErrorsNaming == {"pre-get", "default", "validate-default", "post-get"}

\* C20: a read of an attribute whose default strategy is NoDefault, on an
\* instance whose slot for it is unset, fails with an error that names the
\* attribute and the instance (the error of the default strategy, unless the
\* pre-read hook has already raised), and leaves the instance as it was, the
\* slot unset.
C20_NoDefaultReadFails ==
    [][\A i \in Indexes :
            (/\ members[i].default = "NoDefault"
             /\ get_slot(obj, i) = Unset
             /\ last'.op = "get" /\ last'.idx = i)
                => /\ ~last'.ok
                   /\ last'.err \in GetErrorsNaming
                   /\ last'.err \in {"pre-get", "default"}
                   /\ members[i].pre_getattr = "NoOp" => last'.err = "default"
                   /\ last'.err = "default" <=> last'.dcalls = 1
                   /\ obj' = obj
                   /\ get_slot(obj', i) = Unset]_vars

\* a read has failed in the NoDefault strategy, the pre-read hook having
\* returned; the slot is unset
C20_Witness ==
    /\ last.op = "get" /\ ~last.ok /\ last.err = "default" /\ last.dcalls = 1
    /\ last.idx \in Indexes
    /\ members[last.idx].default = "NoDefault"
    /\ members[last.idx].pre_getattr = "ObjectMethod"
    /\ get_slot(obj, last.idx) = Unset

\* the names of the steps a write ran, in the order it ran them
StepsRun(steps) == [k \in 1..Len(steps) |-> steps[k].ev]
IsPrefix(a, b) == Len(a) <= Len(b) /\ a = SubSeq(b, 1, Len(a))
\* the number of steps a write has run when it returns with the error err
StepsBefore(err) ==
    CASE err = "frozen" -> 2
      [] err = "pre-set" -> 3
      [] err = "validation" -> 4
      [] OTHER -> 6

\* C21 (as stated): a write runs its steps in the order get_slot, pre-write
\* hook, check of the frozen bit, validation, store, post-write hook; on a
\* frozen instance the pre-write hook is run before the write is rejected.
C21_AsStated ==
    [][\A i \in Indexes :
            last'.op = "set" /\ last'.idx = i
                => /\ IsPrefix(StepsRun(last'.steps),
                               <<"get_slot", "pre_set", "is_frozen", "validator", "store",
                                 "post_set">>)
                   /\ obj.frozen => \E k \in 1..Len(last'.steps) : last'.steps[k].ev = "pre_set"]_vars

\* C21 (amended): a write runs its steps in the order get_slot, check of the
\* frozen bit, pre-write hook with the value read, validation, store,
\* post-write hook with (value read, value stored), and stops at the first
\* step that fails; on a frozen instance the write is rejected before the
\* pre-write hook is run.
C21_WriteOrder ==
    [][\A i \in Indexes :
            last'.op = "set" /\ last'.idx = i
                => /\ IsPrefix(StepsRun(last'.steps),
                               <<"get_slot", "is_frozen", "pre_set", "validator", "store",
                                 "post_set">>)
                   /\ Len(last'.steps) = StepsBefore(last'.err)
                   /\ \A k \in 1..Len(last'.steps) :
                          /\ last'.steps[k].idx = i
                          /\ last'.steps[k].ev \in {"get_slot", "pre_set"}
                                => Is(last'.steps[k].x, get_slot(obj, i))
                          /\ last'.steps[k].ev = "store"
                                => Is(last'.steps[k].x, get_slot(obj', i))
                          /\ last'.steps[k].ev = "post_set"
                                => last'.steps[k].x = Pair(get_slot(obj, i), get_slot(obj', i))
                   /\ obj.frozen <=> last'.err = "frozen"
                   /\ obj.frozen => StepsRun(last'.steps) = <<"get_slot", "is_frozen">>]_vars

\* a write to a frozen instance has been rejected for being frozen, the
\* pre-write hook of the attribute being one that rejects every write
C21_Witness ==
    /\ obj.frozen
    /\ last.op = "set" /\ ~last.ok /\ last.err = "frozen"
    /\ members[last.idx].pre_setattr = "Constant"
    /\ StepsRun(last.steps) = <<"get_slot", "is_frozen">>

\* C30: a delete of an attribute with the slot-clearing strategy succeeds and
\* leaves the slot unset and the rest of the instance as it was, and the read
\* of the attribute that follows it behaves as a first read: unless its
\* pre-read hook raises, it calls the default strategy; a delete of an
\* undeletable attribute fails and leaves the instance as it was.
C30_Delete ==
    [][\A i \in Indexes :
            /\ (last'.op = "del" /\ last'.idx = i /\ members[i].delattr = "Slot")
                    => /\ last'.ok
                       /\ obj' = del_slot(obj, i)
                       /\ get_slot(obj', i) = Unset
            /\ (last'.op = "del" /\ last'.idx = i /\ members[i].delattr = "Undeletable")
                    => ~last'.ok /\ last'.err = "undeletable" /\ obj' = obj
            /\ (/\ last.op = "del" /\ last.idx = i /\ last.ok
                /\ last'.op = "get" /\ last'.idx = i)
                    => /\ last'.err # "pre-get" => last'.dcalls = 1
                       /\ last'.ok => get_slot(obj', i) = last'.val]_vars

\* a delete has cleared a slot of a frozen instance
C30_Witness ==
    /\ last.op = "del" /\ last.ok
    /\ members[last.idx].delattr = "Slot"
    /\ members[last.idx].default = "Call"
    /\ obj.frozen
    /\ get_slot(obj, last.idx) = Unset

(***************************************************************************)
(* Properties of the coercion fallback.                                    *)
(***************************************************************************)
\* strict validation of the value handed to the coercer call log[k] has
\* failed earlier in the handling of the same write or keyword argument
StrictFailedBefore(log, k) ==
    \E j \in 1..(k - 1) :
        /\ log[j].ev = "strict_err" /\ log[j].x = log[k].x
        /\ \A l \in j..k : log[l].ev \notin {"kwarg", "set"}

\* C7: a coercer is called on a value only after strict validation of that
\* value has failed, and the coercer called is the one of the active phase:
\* the init coercer during init_ators, the assignment coercer otherwise.
C7_CoercerOnlyAfterStrictFailure ==
    \A k \in 1..Len(trace.log) :
        trace.log[k].ev = "coerce"
            => /\ StrictFailedBefore(trace.log, k)
               /\ trace.log[k].init <=> last.op = "init"

Stored(steps) == \E k \in 1..Len(steps) : steps[k].ev = "store"
\* the checks of a write of `value` to slot i of the instance: the frozen
\* bit, the pre-write hook (hook tells what a host callback does) and
\* validation with its coercion fallback
ChecksPass(i, value, hook) ==
    /\ ~obj.frozen
    /\ pre_set(members[i].pre_setattr, get_slot(obj, i), [pre_set |-> hook])
    /\ Validate(members[i].validator, value).ok

\* C25: a write stores a value exactly when the frozen check, the pre-write
\* hook and validation (with its coercion fallback) all succeed, and the
\* value stored is the validated one; a write that fails in one of the three
\* leaves the instance as it was; a write whose post-write hook fails
\* returns an error with the validated value in the slot.
C25_WriteChangesSlot ==
    [][\A i \in Indexes :
            last'.op = "set" /\ last'.idx = i
                => /\ Stored(last'.steps) <=> ChecksPass(i, trace'.log[1].x, TRUE)
                   /\ Stored(last'.steps) <=> (last'.ok \/ last'.err = "post-set")
                   /\ ~Stored(last'.steps)
                        => /\ obj' = obj
                           /\ last'.err \in {"frozen", "pre-set", "validation"}
                   /\ Stored(last'.steps)
                        => /\ obj' = set_slot(obj, i, Validate(members[i].validator,
                                                               trace'.log[1].x).val)
                           /\ get_slot(obj', i) # Unset]_vars

\* a write whose value was coerced has failed in its post-write hook and the
\* coerced value is in the slot
C25_Witness ==
    /\ last.op = "set" /\ ~last.ok /\ last.err = "post-set"
    /\ \E k \in 1..Len(trace.log) :
           /\ trace.log[k].ev = "coerced"
           /\ Is(get_slot(obj, last.idx), trace.log[k].x)
           /\ ~Is(trace.log[1].x, trace.log[k].x)

(***************************************************************************)
(* The validator engine on its own: Validator::validate applied to one     *)
(* value.                                                                  *)
(***************************************************************************)
RECURSIVE SeqsOfLen(_, _)
SeqsOfLen(S, n) ==
    IF n = 0 THEN {<<>>} ELSE {Append(q, e) : q \in SeqsOfLen(S, n - 1), e \in S}
SeqsUpTo(S, n) == UNION {SeqsOfLen(S, k) : k \in 0..n}
Distinct(q) == \A a, b \in 1..Len(q) : a # b => ~PyEq(q[a], q[b])

\* the elements and the containers the caller hands in; a set is given by the
\* order in which it iterates, a dict by its entries
Elements == InputInts \cup {StrObj(MaxInt)}
ElementSeqs == SeqsUpTo(Elements, MaxLen)
Entries == {Obj(0, "pair", 0, <<k, v>>) : k \in InputInts, v \in Elements}
Containers ==
    {Obj(1, kind, 0, q) : kind \in {"tuple"}, q \in ElementSeqs}
        \cup {Obj(1, kind, 0, q) : kind \in {"frozenset", "set"},
                                   q \in {d \in ElementSeqs : Distinct(d)}}
        \cup {Obj(1, "dict", 0, q) : q \in SeqsUpTo(Entries, 1)}

\* the validators of the elements, and the validators under study
ItemValidators ==
    {Plain("Int"), Plain("Str"), Plain("Any"),
     Validator(TypeValidator("Int", <<>>), <<>>, "TypeInferred", "None")}
ContainerTypes ==
    {TypeValidator("Tuple", q) : q \in SeqsUpTo(ItemValidators, MaxLen)}
        \cup {TypeValidator(kind, q) : kind \in {"VarTuple", "FrozenSet", "Set"},
                                       q \in SeqsUpTo(ItemValidators, 1)}
        \cup {TypeValidator("Dict", q) : q \in {<<>>} \cup SeqsOfLen({Plain("Int"), Plain("Any")}, 2)}
UnionTypes ==
    {TypeValidator("Union", q) : q \in SeqsUpTo(ItemValidators, MaxLen) \ {<<>>}}
\* the fixed Tuple validators are also taken with a coercer of their own
Validators ==
    {Validator(tv, <<>>, "None", "None") : tv \in ContainerTypes \cup UnionTypes}
        \cup {Validator(tv, <<>>, "TypeInferred", "None") :
                  tv \in {c \in ContainerTypes : c.kind = "Tuple"}}

ValInputs == [validator : Validators, value : Containers \cup Elements]

\* Validator::validate returns
DoValidate ==
    /\ vout = NoResult
    /\ vout' = Validate(vin.validator, vin.value)
    /\ UNCHANGED <<members, mutability, obj, last, trace, served, vin, threads, cs, flag, races,
                   typeVars>>

InitVal ==
    /\ members = TypeOf(PlainMember(0))
    /\ mutability = ClassMutability("Mutable", {})
    /\ obj = py_new(NMembers)
    /\ last = NoOutcome
    /\ trace = Tracing(FALSE)
    /\ served = [i \in Indexes |-> NoServed]
    /\ vin \in ValInputs
    /\ vout = NoResult
    /\ threads = NoThreads
    /\ cs = 0
    /\ flag = NoFlag
    /\ races = NoRaces
    /\ NoTypes

NextVal == DoValidate

SpecVal == InitVal /\ [][NextVal]_vars

\* MemberBuilder::build, the validator of the Member: a TypeInferred coercer
\* (or init coercer) asked for the member is set on every member of a Union
\* that has none of its own
build_union(union, coerce, coerce_init) ==
    [k \in 1..Len(union) |->
        [union[k] EXCEPT
            !.coercer = IF coerce = "TypeInferred" /\ @ = "None" THEN "TypeInferred" ELSE @,
            !.init_coercer =
                IF coerce_init = "TypeInferred" /\ @ = "None" THEN "TypeInferred" ELSE @]]
build(tv, value_validators, coerce, coerce_init) ==
    Validator(IF tv.kind = "Union"
              THEN TypeValidator("Union", build_union(tv.items, coerce, coerce_init))
              ELSE tv,
              value_validators, coerce, coerce_init)

\* the validators of the Union attributes built with or without type-inferred
\* coercion, run on every element and container
BuiltUnions == {build(tv, <<>>, c, "None") : tv \in UnionTypes, c \in {"None", "TypeInferred"}}
InitBuilt ==
    /\ members = TypeOf(PlainMember(0))
    /\ mutability = ClassMutability("Mutable", {})
    /\ obj = py_new(NMembers)
    /\ last = NoOutcome
    /\ trace = Tracing(FALSE)
    /\ served = [i \in Indexes |-> NoServed]
    /\ vin \in [validator : BuiltUnions, value : Containers \cup Elements]
    /\ vout = NoResult
    /\ threads = NoThreads
    /\ cs = 0
    /\ flag = NoFlag
    /\ races = NoRaces
    /\ NoTypes

SpecBuilt == InitBuilt /\ [][NextVal]_vars

(***************************************************************************)
(* Properties of the validator engine.                                     *)
(***************************************************************************)
Validated == vout # NoResult
UnionMembers == vin.validator.tv.items
\* the member validators consulted, in the order of the calls
Consulted == SelectSeq(Tail(vout.log), LAMBDA e : e.ev = "validate")
Accepting == {j \in 1..Len(UnionMembers) : Validate(UnionMembers[j], vin.value).ok}
FirstAccepting == CHOOSE j \in Accepting : \A k \in Accepting : j <= k

\* C9: a Union consults its members in declaration order up to the first one
\* that accepts the value and returns that member's result; when none
\* accepts, it fails with one aggregate error holding the failure of every
\* member, in declaration order.
C9_UnionOrder ==
    Validated /\ vin.validator.tv.kind = "Union"
        => IF Accepting # {}
           THEN /\ vout.ok
                /\ Is(vout.val, Validate(UnionMembers[FirstAccepting], vin.value).val)
                /\ Len(Consulted) = FirstAccepting
                /\ \A j \in 1..FirstAccepting : Consulted[j].v = UnionMembers[j]
           ELSE /\ ~vout.ok
                /\ vout.err.msg = "Value is not valid for any member of the union"
                /\ Len(vout.err.causes) = Len(UnionMembers)
                /\ \A j \in 1..Len(UnionMembers) :
                       vout.err.causes[j] = Validate(UnionMembers[j], vin.value).err
                /\ Len(Consulted) = Len(UnionMembers)
                /\ \A j \in 1..Len(UnionMembers) : Consulted[j].v = UnionMembers[j]

\* both members of a Union accept the value, each with a result of its own,
\* and the Union has returned the result of the first
C9_Witness ==
    /\ Validated /\ vin.validator.tv.kind = "Union" /\ Len(UnionMembers) = 2
    /\ Accepting = {1, 2}
    /\ ~Is(Validate(UnionMembers[1], vin.value).val, Validate(UnionMembers[2], vin.value).val)
    /\ vout.ok /\ Is(vout.val, Validate(UnionMembers[1], vin.value).val)

\* the element validator of the element at position i of a container
ElementValidator(tv, i) == IF tv.kind = "Tuple" THEN tv.items[i] ELSE tv.items[1]
\* Validator::validate accepts the element and returns the element itself
Unchanged(validator, e) == Validate(validator, e).ok /\ Is(Validate(validator, e).val, e)
\* the value is a container of the validator's type every element of which
\* its element validator (if there is one) accepts unchanged
ElementsUnchanged(tv, value) ==
    CASE tv.kind = "Tuple" ->
            /\ value.kind = "tuple" /\ Len(value.items) = Len(tv.items)
            /\ \A i \in 1..Len(value.items) : Unchanged(tv.items[i], value.items[i])
      [] tv.kind \in {"VarTuple", "FrozenSet", "Set"} ->
            /\ value.kind = (IF tv.kind = "VarTuple" THEN "tuple"
                             ELSE IF tv.kind = "Set" THEN "set" ELSE "frozenset")
            /\ tv.items # <<>>
                   => \A i \in 1..Len(value.items) : Unchanged(tv.items[1], value.items[i])
      [] tv.kind = "Dict" ->
            /\ value.kind = "dict"
            /\ tv.items # <<>>
                   => \A i \in 1..Len(value.items) :
                          /\ Unchanged(tv.items[1], value.items[i].items[1])
                          /\ Unchanged(tv.items[2], value.items[i].items[2])
      [] OTHER -> FALSE

\* C10: a container validator returns the container it was given, not a
\* copy, when every element already satisfies its element validator
\* unchanged.
C10_IdentityPreserved ==
    Validated /\ ElementsUnchanged(vin.validator.tv, vin.value)
        => vout.ok /\ Is(vout.val, vin.value)

\* a fixed Tuple validator has been run on a tuple
TupleValidated == Validated /\ vin.validator.tv.kind = "Tuple" /\ vin.value.kind = "tuple"
Arity == Len(vin.validator.tv.items)
\* the positions whose element its validator refuses
Invalid ==
    {i \in 1..Arity : ~Validate(vin.validator.tv.items[i], vin.value.items[i]).ok}
\* the number of positions validated: up to the first invalid one
LastValidated == IF Invalid = {} THEN Arity ELSE CHOOSE i \in Invalid : \A k \in Invalid : i <= k
\* the coercer calls in the trace of the validation
CoercerCalls == SelectSeq(vout.log, LAMBDA e : e.ev = "coerce")

\* C11: the fixed Tuple validator fails on a tuple of the wrong length with
\* an error that gives the required and the actual length, before it
\* validates (or coerces) any element; on a tuple of the right length it
\* validates the elements in position order up to the first invalid one and
\* fails there with that index and that element's error.
C11_TupleArity ==
    TupleValidated
        => IF Len(vin.value.items) # Arity
           THEN /\ ~vout.ok
                /\ vout.err.lengths = <<Arity, Len(vin.value.items)>>
                /\ Consulted = <<>>
                /\ \A k \in 1..Len(CoercerCalls) : CoercerCalls[k].v = vin.validator.tv
           ELSE /\ Len(Consulted) = LastValidated
                /\ \A i \in 1..LastValidated :
                       /\ Consulted[i].v = vin.validator.tv.items[i]
                       /\ Is(Consulted[i].x, vin.value.items[i])
                /\ vin.validator.coercer = "None"
                       => IF Invalid = {} THEN vout.ok
                          ELSE /\ ~vout.ok
                               /\ vout.err.index = LastValidated - 1
                               /\ vout.err.causes =
                                      <<Validate(vin.validator.tv.items[LastValidated],
                                                 vin.value.items[LastValidated]).err>>

\* a pair whose first element is refused and whose second would be refused
\* too: the validation has failed at index 0 after validating one element
C11_Witness ==
    /\ TupleValidated /\ Arity = 2 /\ Len(vin.value.items) = 2
    /\ vin.validator.coercer = "None"
    /\ Invalid = {1, 2}
    /\ ~vout.ok /\ vout.err.index = 0 /\ Len(Consulted) = 1

\* C27: the value a fixed Tuple validator (with no coercer of its own)
\* returns for a tuple it accepts is a tuple of the declared arity whose
\* element at each position is the validated result of the input element at
\* that position.
C27_TupleRebuilt ==
    (TupleValidated /\ vin.validator.coercer = "None" /\ vout.ok)
        => /\ vout.val.kind = "tuple"
           /\ Len(vout.val.items) = Arity
           /\ \A i \in 1..Arity :
                  i <= Len(vout.val.items)
                      => Is(vout.val.items[i],
                            Validate(vin.validator.tv.items[i], vin.value.items[i]).val)

\* C28: a Union validator built with type-inferred coercion returns the
\* value it is given, unchanged, whenever strict validation by at least one
\* member of the union accepts the value.
C28_UnionKeepsAccepted ==
    (/\ Validated
     /\ vin.validator.tv.kind = "Union" /\ vin.validator.coercer = "TypeInferred"
     /\ \E k \in 1..Len(UnionMembers) : StrictValidate(UnionMembers[k], vin.value).ok)
        => vout.ok /\ Is(vout.val, vin.value)

(***************************************************************************)
(* Concurrent access to one instance.  Every thread runs one handler at a  *)
(* time, a step of it at a time: get_slot / set_slot / del_slot and freeze *)
(* with their critical section on the instance and their borrow of its     *)
(* cell.  A store writes the slot in two steps, between which the slot     *)
(* holds a half-written value (Torn); an access that finds the cell        *)
(* borrowed in a conflicting way panics and the handler ends.              *)
(***************************************************************************)
Threads == 1..NThreads
Torn == Obj(0, "torn", 0, <<>>)
Idle == [pc |-> "idle", op |-> "", idx |-> 0, value |-> Unset, got |-> Unset]

\* variant: a borrow_mut that does not look at the borrow flag
borrow_mut_unchecked(f) == [ok |-> TRUE, flag |-> [f EXCEPT !.exclusive = TRUE]]

\* Bound::borrow and Bound::borrow_mut on the cell of the instance
borrow(f) == [ok |-> ~f.exclusive, flag |-> [f EXCEPT !.shared = f.shared + 1]]
borrow_mut(f) ==
    [ok |-> f.shared = 0 /\ ~f.exclusive, flag |-> [f EXCEPT !.exclusive = TRUE]]

At(t, pc) == threads[t].pc = pc
Goto(t, pc) == threads' = [threads EXCEPT ![t].pc = pc]
\* the handler ends with an error: a frozen instance, or the panic of a
\* borrow that conflicts with one held by another thread
Fail(t) == threads' = [threads EXCEPT ![t] = Idle]
Panic(t) == threads' = [threads EXCEPT ![t] = [Idle EXCEPT !.op = "panic"]] /\ UNCHANGED races
unchangedType == UNCHANGED <<members, mutability, last, trace, served, vin, vout, typeVars>>

\* a thread enters Member::__get__, Member::__set__, Member::__delete__ or
\* freeze; the first two start with get_slot, the others with the critical
\* section of del_slot and of freeze
Start(t, op, i, value) ==
    /\ At(t, "idle")
    /\ threads' = [threads EXCEPT ![t] = [pc |-> IF op \in {"get", "set"} THEN "borrow"
                                                 ELSE "enter",
                                          op |-> op, idx |-> i, value |-> value,
                                          got |-> Unset]]
    /\ UNCHANGED <<obj, cs, flag, races>> /\ unchangedType

\* get_slot: let oref = object.borrow()
Borrow(t) ==
    /\ At(t, "borrow")
    /\ IF borrow(flag).ok
       THEN flag' = borrow(flag).flag /\ Goto(t, "is_frozen") /\ UNCHANGED races
       ELSE Panic(t) /\ UNCHANGED flag
    /\ UNCHANGED <<obj, cs>> /\ unchangedType

\* get_slot: if oref.is_frozen()
IsFrozen(t) ==
    /\ At(t, "is_frozen")
    /\ Goto(t, IF obj.frozen THEN "read" ELSE "lock")
    /\ UNCHANGED <<obj, cs, flag, races>> /\ unchangedType

\* get_slot: with_critical_section, taken by the read of an instance that
\* was not frozen
Lock(t) ==
    /\ At(t, "lock") /\ cs = 0
    /\ cs' = t
    /\ Goto(t, "read")
    /\ UNCHANGED <<obj, flag, races>> /\ unchangedType

\* get_slot: the read of the slot, in the critical section or outside it
Read(t) ==
    /\ At(t, "read")
    /\ threads' = [threads EXCEPT ![t].got = get_slot(obj, threads[t].idx), ![t].pc = "drop"]
    /\ cs' = IF cs = t THEN 0 ELSE cs
    /\ UNCHANGED <<obj, flag, races>> /\ unchangedType

\* the calls of the default strategy are counted up to MaxDefaults
MaxDefaults == 2
\* what the default strategy of a member may return (Unset: the callable raises)
DefaultOutcomes(m) == IF m.default = "Static" THEN {Unset} ELSE InputInts \cup {Unset}

\* get_slot returns and oref is dropped.  __set__ goes on to its check of the
\* frozen bit with the value read as `current`; __get__ returns the value
\* read or, when the slot was unset, calls the default strategy and goes on
\* to set_slot with the default (a validator that accepts every value).
Drop(t) ==
    /\ At(t, "drop")
    /\ flag' = [flag EXCEPT !.shared = flag.shared - 1]
    /\ IF threads[t].op = "set"
       THEN Goto(t, "check") /\ UNCHANGED races
       ELSE IF threads[t].got # Unset
       THEN Fail(t) /\ UNCHANGED races
       ELSE /\ races' = [races EXCEPT !.defaults = IF @ < MaxDefaults THEN @ + 1 ELSE @]
            /\ \E dflt \in DefaultOutcomes(members[threads[t].idx]) :
                   LET d == default(members[threads[t].idx], [dflt |-> dflt])
                   IN  IF d.ok
                       THEN threads' = [threads EXCEPT ![t].pc = "enter", ![t].value = d.val]
                       ELSE Fail(t)
    /\ UNCHANGED <<obj, cs>> /\ unchangedType

\* Member::__set__: `current`, the value get_slot returned at the start of
\* the write
Current(t) == threads[t].got

\* Member::__set__: if object.borrow().is_frozen(), then pre_set with
\* `current`; the validator accepts every value
Check(t) ==
    /\ At(t, "check")
    /\ IF ~borrow(flag).ok THEN Panic(t)
       ELSE /\ IF obj.frozen THEN Fail(t)
               ELSE IF ~pre_set(members[threads[t].idx].pre_setattr, Current(t),
                                [pre_set |-> TRUE])
               THEN Fail(t)
               ELSE Goto(t, "enter")
            /\ UNCHANGED races
    /\ UNCHANGED <<obj, cs, flag>> /\ unchangedType

\* set_slot, del_slot, freeze: with_critical_section
Enter(t) ==
    /\ At(t, "enter") /\ cs = 0
    /\ cs' = t
    /\ Goto(t, "borrow_mut")
    /\ UNCHANGED <<obj, flag, races>> /\ unchangedType

\* set_slot, del_slot, freeze: object.borrow_mut(); a panic unwinds out of
\* the critical section
BorrowMut(t) ==
    /\ At(t, "borrow_mut")
    /\ IF borrow_mut(flag).ok
       THEN /\ flag' = borrow_mut(flag).flag
            /\ Goto(t, IF threads[t].op = "freeze" THEN "set_frozen" ELSE "write")
            /\ UNCHANGED <<cs, races>>
       ELSE Panic(t) /\ cs' = 0 /\ UNCHANGED flag
    /\ UNCHANGED obj /\ unchangedType

\* set_slot, del_slot: the store into the slot begins
Write(t) ==
    /\ At(t, "write")
    /\ obj' = set_slot(obj, threads[t].idx, Torn)
    /\ races' = [races EXCEPT !.overlap = @ \/ get_slot(obj, threads[t].idx) = Torn]
    /\ Goto(t, "written")
    /\ UNCHANGED <<cs, flag>> /\ unchangedType

\* set_slot, del_slot: the store into the slot is complete
Written(t) ==
    /\ At(t, "written")
    /\ obj' = set_slot(obj, threads[t].idx, threads[t].value)
    /\ races' = [races EXCEPT !.stored = @ \cup {<<threads[t].idx, threads[t].value>>}]
    /\ Goto(t, "release")
    /\ UNCHANGED <<cs, flag>> /\ unchangedType

\* freeze: obj.borrow_mut().frozen = true
SetFrozen(t) ==
    /\ At(t, "set_frozen")
    /\ obj' = [obj EXCEPT !.frozen = TRUE]
    /\ Goto(t, "release")
    /\ UNCHANGED <<cs, flag, races>> /\ unchangedType

\* the history once the handler of thread t has returned
Handled(t) ==
    CASE threads[t].op = "get" ->
            [races EXCEPT !.defaulted = @ \cup {threads[t].value}]
      [] threads[t].op = "set" ->
            [races EXCEPT !.defaults = 0, !.defaulted = {}, !.written = @ \cup {threads[t].idx}]
      [] threads[t].op = "del" ->
            [races EXCEPT !.defaults = 0, !.defaulted = {}, !.written = @ \ {threads[t].idx}]
      [] OTHER -> races

\* the mutable borrow is dropped and the critical section left: the handler
\* returns (the hooks that follow the store are NoOp)
Release(t) ==
    /\ At(t, "release")
    /\ flag' = [flag EXCEPT !.exclusive = FALSE]
    /\ cs' = IF cs = t THEN 0 ELSE cs
    /\ threads' = [threads EXCEPT ![t] = Idle]
    /\ races' = Handled(t)
    /\ UNCHANGED obj /\ unchangedType

\* the threads work on the first slot of the instance: the slots share
\* nothing but its critical section, its borrow flag and its frozen bit
ConcMembers ==
    {Member(0, "NoOp", "NoOp", c, "NoOp", "Slot", f, Plain("Any")) :
        c \in {"NoOp", "ReadOnly"}, f \in {"Static", "Call"}}

InitConc ==
    /\ members \in {TypeOf(m0) : m0 \in ConcMembers}
    /\ mutability = ClassMutability("Immutable", {})
    /\ obj = py_new(NMembers)
    /\ last = NoOutcome
    /\ trace = Tracing(FALSE)
    /\ served = [i \in Indexes |-> NoServed]
    /\ vin = NoInput
    /\ vout = NoResult
    /\ threads = [t \in Threads |-> Idle]
    /\ cs = 0
    /\ flag = NoFlag
    /\ races = NoRaces
    /\ NoTypes

NextConc ==
    \E t \in Threads :
        \/ Start(t, "get", 0, Unset)
        \/ \E value \in InputInts : Start(t, "set", 0, value)
        \/ Start(t, "del", 0, Unset)
        \/ Start(t, "freeze", 0, Unset)
        \/ Borrow(t) \/ IsFrozen(t) \/ Lock(t) \/ Read(t) \/ Drop(t) \/ Check(t)
        \/ Enter(t) \/ BorrowMut(t) \/ Write(t) \/ Written(t) \/ SetFrozen(t) \/ Release(t)

SpecConc == InitConc /\ [][NextConc]_vars

(***************************************************************************)
(* Properties of the concurrent access.                                    *)
(***************************************************************************)
\* C5: a read of a slot yields unset or a value that a completed store put
\* in that slot, never a half-written one, and no store into a slot begins
\* while another store into it is under way.
C5_SlotUpdateAtomic ==
    /\ ~races.overlap
    /\ \A t \in Threads :
           At(t, "drop")
               => \/ threads[t].got = Unset
                  \/ <<threads[t].idx, threads[t].got>> \in races.stored

\* a read outside the critical section (the instance is frozen) has returned
\* a stored value while another thread, past its check of the frozen bit, is
\* about to store into the same slot
C5_Witness ==
    \E t, u \in Threads :
        /\ At(t, "drop") /\ obj.frozen /\ threads[t].got # Unset
        /\ threads[u].op = "set" /\ threads[u].pc \in {"enter", "borrow_mut"}
        /\ threads[u].idx = threads[t].idx

\* C6: once freeze has completed, no slot of the instance is stored to or
\* cleared, whatever the interleaving of freeze with writers and deleters.
C6_NoMutationAfterFreeze == [][obj.frozen => obj'.slots = obj.slots]_vars

\* C22: as long as the instance is not frozen, no handler ends in the panic
\* of a borrow of the instance that conflicts with a borrow held by another
\* thread.
C22_NoBorrowConflict ==
    [][~obj.frozen => \A t \in Threads : threads'[t].op = "panic" => threads[t].op = "panic"]_vars

\* C23: a write to a ReadOnly attribute succeeds only when no write to it has
\* succeeded since the last successful delete of it (or since the instance
\* was made).
C23_ReadOnlyOneWrite ==
    [][\A t \in Threads :
            (/\ At(t, "release") /\ threads[t].op = "set" /\ threads'[t].pc = "idle"
             /\ members[threads[t].idx].pre_setattr = "ReadOnly")
                => threads[t].idx \notin races.written]_vars

\* C24: the reads that find the slot unset call the default strategy at most
\* once between them and return the same value, and once every handler has
\* returned that value is the one in the slot.
C24_DefaultOnce ==
    /\ races.defaults <= 1
    /\ Cardinality(races.defaulted) <= 1
    /\ (\A t \in Threads : At(t, "idle"))
            => \A v \in races.defaulted : Is(get_slot(obj, 0), v)

(***************************************************************************)
(* Construction of record types: create_ators_subclass.  A type is a       *)
(* number: 0 is AtorsBase, n >= 1 the n-th type constructed (`object`,     *)
(* the tail of every linearization, is left out).  A type is the record    *)
(* [bases, mro, frozen, specific, members, methods, dict]: mro is its      *)
(* __mro__, members its __ators_members__ and dict the Member entries of   *)
(* its own namespace, both from attribute name to the id of a Member       *)
(* object in `descriptors`; attribute and method names are numbers.        *)
(***************************************************************************)
\* u8::MAX, the largest slot index
U8Max == 255
ators_base_ty == 0
NoType == 0 - 1
NoIndex == 0 - 1

\* type.mro() of a base
Linearization(cls, type) ==
    IF type = ators_base_ty THEN <<ators_base_ty>> ELSE cls[type].mro

InTail(imro, type) == \E k \in 2..Len(imro) : imro[k] = type
InSomeTail(inputs, type) == \E i \in 1..Len(inputs) : InTail(inputs[i], type)

\* variant: a selection that takes the head of the first input as it is
CandidateFirstHead(inputs, k) == inputs[1][1]

\* mro_from_bases, the for loop: the head of the first input that is in the
\* tail of no input
RECURSIVE Candidate(_, _)
Candidate(inputs, k) ==
    IF k > Len(inputs) THEN NoType
    ELSE IF InSomeTail(inputs, inputs[k][1]) THEN Candidate(inputs, k + 1)
    ELSE inputs[k][1]

\* mro_from_bases, the while loop: the selected type is removed from the
\* head of every input and the inputs left empty are dropped; log keeps the
\* inputs and the selection of every step
RECURSIVE Merge(_, _, _)
MergeStep(inputs, mro, log, candidate) ==
    IF candidate # NoType
    THEN Merge(SelectSeq([i \in 1..Len(inputs) |->
                             IF inputs[i][1] = candidate THEN Tail(inputs[i]) ELSE inputs[i]],
                         LAMBDA imro : imro # <<>>),
               Append(mro, candidate),
               Append(log, [inputs |-> inputs, type |-> candidate]))
    ELSE [ok |-> FALSE, mro |-> mro, log |-> Append(log, [inputs |-> inputs, type |-> NoType])]

Merge(inputs, mro, log) ==
    IF inputs = <<>> THEN [ok |-> TRUE, mro |-> mro, log |-> log]
    ELSE MergeStep(inputs, mro, log, Candidate(inputs, 1))

BaseLinearizations(cls, bases) == [i \in 1..Len(bases) |-> Linearization(cls, bases[i])]

mro_from_bases(cls, bases) == Merge(BaseLinearizations(cls, bases), <<>>, <<>>)

\* the linearization type.__new__ computes for the new type: the same merge
\* with the tuple of bases as one more input
type_mro(cls, bases) == Merge(Append(BaseLinearizations(cls, bases), bases), <<>>, <<>>)

\* variant: a factory that counts up without looking at the indexes in use
next_index_unchecked(factory) ==
    [ok |-> TRUE, index |-> factory.next_index,
     factory |-> [factory EXCEPT !.next_index = @ + 1]]

\* the indexes from next_index on that are not occupied
FreeIndexes(factory) == (factory.next_index..U8Max) \ factory.occupied
\* where the while loop of next_index stops
FirstFree(free) == CHOOSE i \in free : \A j \in free : i <= j

\* FreeSlotIndexFactory::next_index: the while loop moves next_index up to the
\* first index that is not occupied, and returns the error when it comes to
\* u8::MAX and finds it occupied
next_indexAt(factory, index) ==
    [ok |-> TRUE, index |-> index,
     factory |-> [occupied |-> factory.occupied \cup {index}, next_index |-> index]]
next_indexFrom(factory, free) ==
    IF free = {}
    THEN [ok |-> FALSE, index |-> NoIndex, factory |-> [factory EXCEPT !.next_index = U8Max]]
    ELSE next_indexAt(factory, FirstFree(free))
next_index(factory) == next_indexFrom(factory, FreeIndexes(factory))

\* HashMap::extend and dict.update
Extend(f, g) == g @@ f
NoMembers == [k \in {} |-> 0]

\* the walk of the mro in reverse order: every record type other than
\* AtorsBase contributes the members that are specific to it
RECURSIVE InheritedMembers(_, _, _, _)
InheritedMembers(cls, mro, k, acc) ==
    IF k = 0 THEN acc
    ELSE InheritedMembers(cls, mro, k - 1,
                          IF mro[k] = ators_base_ty THEN acc
                          ELSE Extend(acc, [n \in cls[mro[k]].specific |->
                                               cls[mro[k]].members[n]]))

\* variant: only the first type of the linearization is looked at
FrozenFirstBase(cls, mro) ==
    {mro[k] : k \in {j \in 1..Len(mro) : j = 1 /\ mro[j] # ators_base_ty /\ cls[mro[j]].frozen}}

\* the record types of the mro that are frozen
FrozenAncestors(cls, mro) ==
    {mro[k] : k \in {j \in 1..Len(mro) : mro[j] # ators_base_ty /\ cls[mro[j]].frozen}}

\* the methods gathered from the bases (__ators_methods__ of each)
BaseMethods(cls, bases) ==
    UNION {cls[bases[i]].methods : i \in {j \in 1..Len(bases) : bases[j] # ators_base_ty}}

\* the collection of the used indexes and of the conflicts, the members
\* being visited in the order `order` (the iteration order of the HashMap)
ConflictsStep(heap, inherited, order, k, acc) ==
    IF heap[inherited[order[k]]].index \in acc.occupied
    THEN [acc EXCEPT !.conflict = Append(@, order[k])]
    ELSE [acc EXCEPT !.occupied = @ \cup {heap[inherited[order[k]]].index}]

\* the iterations lo..hi of the loop, one after the other: those of the first
\* half of lo..hi, then those of the second half (acc = acc has acc computed
\* before the iterations that start from it)
RECURSIVE ConflictsIn(_, _, _, _, _, _)
ConflictsIn(heap, inherited, order, lo, hi, acc) ==
    IF acc = acc /\ lo > hi THEN acc
    ELSE IF lo = hi THEN ConflictsStep(heap, inherited, order, lo, acc)
    ELSE ConflictsIn(heap, inherited, order, (lo + hi) \div 2 + 1, hi,
                     ConflictsIn(heap, inherited, order, lo, (lo + hi) \div 2, acc))

Conflicts(heap, inherited, order, k, acc) ==
    ConflictsIn(heap, inherited, order, k, Len(order), acc)

\* variant: the Member object itself is given the new index
move_to_index(heap, id, new_index) ==
    Append([heap EXCEPT ![id].index = new_index], [heap[id] EXCEPT !.index = new_index])

\* Member::clone_with_index: a new Member object
clone_with_index(heap, id, new_index) == Append(heap, [heap[id] EXCEPT !.index = new_index])

\* the resolution of the conflicts: each conflicting member is cloned with
\* an index of the factory; acc is [ok, heap, factory, members]
ResolveStep(inherited, conflict, k, acc, r) ==
    IF ~r.ok THEN [acc EXCEPT !.ok = FALSE]
    ELSE [ok |-> TRUE,
          heap |-> clone_with_index(acc.heap, inherited[conflict[k]], r.index),
          factory |-> r.factory,
          members |-> Extend(acc.members, [n \in {conflict[k]} |-> Len(acc.heap) + 1])]

\* the iterations lo..hi of the loop, one after the other, none after the
\* one that returns the error
RECURSIVE ResolveIn(_, _, _, _, _)
ResolveIn(inherited, conflict, lo, hi, acc) ==
    IF lo > hi \/ ~acc.ok THEN acc
    ELSE IF lo = hi THEN ResolveStep(inherited, conflict, lo, acc, next_index(acc.factory))
    ELSE ResolveIn(inherited, conflict, (lo + hi) \div 2 + 1, hi,
                   ResolveIn(inherited, conflict, lo, (lo + hi) \div 2, acc))

Resolve(inherited, conflict, k, acc) == ResolveIn(inherited, conflict, k, Len(conflict), acc)

\* the behaviours whose named-method reference is checked, in the order of
\* the checks
Behaviors ==
    <<"pre_getattr", "post_getattr", "pre_setattr", "post_setattr", "default", "coerce",
      "coerce_init", "value_validator">>

\* a member builder: its name, the <<behaviour, method>> references of the
\* builder itself and those carried by the item validators nested in its
\* type validator
MemberBuilder(name, refs, nested) == [name |-> name, refs |-> refs, nested |-> nested]

\* variant: a check of the references that accepts every method name
UnknownNone(mb, methods) == {}

\* the first behaviour of the builder that references an unknown method
Unknown(mb, methods) ==
    {b \in 1..Len(Behaviors) : \E ref \in mb.refs : ref[1] = Behaviors[b] /\ ref[2] \notin methods}
make_unknown_method_error(mb, methods) ==
    [kind |-> "unknown method", member |-> mb.name,
     behavior |-> Behaviors[CHOOSE b \in Unknown(mb, methods) :
                               \A c \in Unknown(mb, methods) : b <= c]]
CreateError(kind) == [kind |-> kind, member |-> 0, behavior |-> ""]

\* the loop over the member builders: a builder named as an inherited member
\* takes its index, another one takes an index of the factory; then its
\* method references are checked.  acc is [ok, err, factory, indexes]
AssignIndexesStep(heap, builders, known, methods, k, acc, r) ==
    IF ~r.ok THEN [acc EXCEPT !.ok = FALSE, !.err = CreateError("more than 255 members")]
    ELSE IF Unknown(builders[k], methods) # {}
         THEN [acc EXCEPT !.ok = FALSE, !.err = make_unknown_method_error(builders[k], methods)]
         ELSE [acc EXCEPT !.factory = r.factory,
                          !.indexes = Extend(@, [n \in {builders[k].name} |-> r.index])]

\* the iterations lo..hi of the loop, one after the other, none after the
\* one that returns an error
RECURSIVE AssignIndexesIn(_, _, _, _, _, _, _)
AssignIndexesIn(heap, builders, known, methods, lo, hi, acc) ==
    IF lo > hi \/ ~acc.ok THEN acc
    ELSE IF lo = hi
         THEN AssignIndexesStep(heap, builders, known, methods, lo, acc,
                                IF builders[lo].name \in DOMAIN known
                                THEN [ok |-> TRUE,
                                      index |-> heap[known[builders[lo].name]].index,
                                      factory |-> acc.factory]
                                ELSE next_index(acc.factory))
         ELSE AssignIndexesIn(heap, builders, known, methods, (lo + hi) \div 2 + 1, hi,
                              AssignIndexesIn(heap, builders, known, methods, lo,
                                              (lo + hi) \div 2, acc))

AssignIndexes(heap, builders, known, methods, k, acc) ==
    AssignIndexesIn(heap, builders, known, methods, k, Len(builders), acc)

\* MemberBuilder::build of every builder: the new Member objects
NewMembers(heap, builders, indexes) ==
    heap \o [k \in 1..Len(builders) |->
                [name |-> builders[k].name, index |-> indexes[builders[k].name]]]
NewMemberIds(heap, builders) ==
    [n \in {builders[k].name : k \in 1..Len(builders)} |->
        Len(heap) + (CHOOSE k \in 1..Len(builders) : builders[k].name = n)]

\* the outcome of create_ators_subclass
Refused(cls, heap, err, m) ==
    [ok |-> FALSE, err |-> err, classes |-> cls, descriptors |-> heap, mro |-> m]

\* type.__new__ and the type it returns
TypeNew(cls, heap, bases, frozen, builders, methods, m, conflict, resolved, assigned, py_mro) ==
    IF ~py_mro.ok
    THEN Refused(cls, heap, CreateError("Cannot create a consistent method resolution order"), m)
    ELSE [ok |-> TRUE, err |-> CreateError(""),
          classes |-> Append(cls,
              [bases |-> bases, mro |-> <<Len(cls) + 1>> \o py_mro.mro, frozen |-> frozen,
               specific |-> DOMAIN assigned.indexes,
               members |-> Extend(resolved.members, NewMemberIds(resolved.heap, builders)),
               methods |-> methods,
               dict |-> Extend([n \in {conflict[k] : k \in 1..Len(conflict)} |->
                                   resolved.members[n]],
                               NewMemberIds(resolved.heap, builders))]),
          descriptors |-> NewMembers(resolved.heap, builders, assigned.indexes),
          mro |-> m]

\* create_ators_subclass from the assignment of the indexes on
CreateAssigned(cls, heap, bases, frozen, builders, methods, m, conflict, resolved, assigned) ==
    IF ~assigned.ok THEN Refused(cls, heap, assigned.err, m)
    ELSE TypeNew(cls, heap, bases, frozen, builders, methods, m, conflict, resolved, assigned,
                 type_mro(cls, bases))

\* ... from the resolution of the conflicts on
CreateResolved(cls, heap, bases, frozen, builders, methods, m, conflict, resolved) ==
    IF ~resolved.ok THEN Refused(cls, heap, CreateError("more than 255 members"), m)
    ELSE CreateAssigned(cls, heap, bases, frozen, builders, methods, m, conflict, resolved,
                        AssignIndexes(resolved.heap, builders, resolved.members, methods, 1,
                                      [ok |-> TRUE, err |-> CreateError(""),
                                       factory |-> resolved.factory, indexes |-> NoMembers]))

\* ... from the collection of the conflicts on
CreateConflicts(cls, heap, bases, frozen, builders, methods, m, inherited, found) ==
    CreateResolved(cls, heap, bases, frozen, builders, methods, m, found.conflict,
                   Resolve(inherited, found.conflict, 1,
                           [ok |-> TRUE, heap |-> heap,
                            factory |-> [occupied |-> found.occupied, next_index |-> 0],
                            members |-> inherited]))

\* ... from the walk of the mro on
CreateInherited(cls, heap, bases, frozen, builders, methods, order, m, inherited) ==
    CreateConflicts(cls, heap, bases, frozen, builders, methods, m, inherited,
                    Conflicts(heap, inherited, order, 1, [occupied |-> {}, conflict |-> <<>>]))

\* ... from the linearization on
CreateLinearized(cls, heap, bases, frozen, builders, functions, order, m) ==
    IF ~m.ok THEN Refused(cls, heap, CreateError("Inconsistent class hierarchy"), m)
    ELSE IF ~frozen /\ FrozenAncestors(cls, m.mro) # {}
         THEN Refused(cls, heap, CreateError("is not frozen but inherit from"), m)
         ELSE CreateInherited(cls, heap, bases, frozen, builders,
                              BaseMethods(cls, bases) \cup functions, order, m,
                              InheritedMembers(cls, m.mro, Len(m.mro), NoMembers))

\* create_ators_subclass(meta, name, bases, dct, frozen, ..): dct holds the
\* member builders and the functions; order is the order in which the
\* HashMap of the inherited members is iterated, builders the order in which
\* the HashMap of the builders is
create_ators_subclass(cls, heap, bases, frozen, builders, functions, order) ==
    CreateLinearized(cls, heap, bases, frozen, builders, functions, order,
                     mro_from_bases(cls, bases))

\* the names of the members a type with these bases inherits
InheritedNamesOf(cls, m) ==
    IF m.ok THEN DOMAIN InheritedMembers(cls, m.mro, Len(m.mro), NoMembers) ELSE {}
InheritedNames(cls, bases) == InheritedNamesOf(cls, mro_from_bases(cls, bases))

(***************************************************************************)
(* The types and instances constructed.                                    *)
(***************************************************************************)
\* most types constructed, most bases of a type, most attribute names, most
\* attributes declared by one type
MaxClasses == 4
MaxBases == 2
MaxNames == 3
MaxDeclared == 1

Names == 1..MaxNames
\* the attribute names as they come, in increasing order
LargestName == U8Max + 2
Ascending(S) == SelectSeq([n \in 1..LargestName |-> n], LAMBDA n : n \in S)
\* the orders in which a HashMap of these keys is iterated: every order of a
\* few keys, one order of many
Orders(S) ==
    IF S \subseteq Names
    THEN {q \in [1..Cardinality(S) -> S] : \A a, b \in 1..Cardinality(S) : a # b => q[a] # q[b]}
    ELSE {Ascending(S)}

\* the tuples of bases: AtorsBase, or distinct types among those constructed
BaseTuples ==
    {<<ators_base_ty>>}
        \cup {q \in UNION {[1..n -> 1..Len(classes)] : n \in 1..MaxBases} :
                  \A a, b \in 1..Len(q) : a # b => q[a] # q[b]}

PlainBuilder(name) == MemberBuilder(name, {}, {})
\* the builders of a type body that declares the attributes S, in every
\* order of iteration
Declarations(S) ==
    UNION {{[k \in 1..Len(q) |-> PlainBuilder(q[k])] : q \in Orders(T)} :
              T \in {U \in SUBSET S : Cardinality(U) <= MaxDeclared}}

Created(bases, frozen, builders, functions, r) ==
    /\ classes' = r.classes
    /\ descriptors' = r.descriptors
    /\ made' = [NoMade EXCEPT !.op = "create", !.ok = r.ok, !.err = r.err,
                              !.cls = IF r.ok THEN Len(r.classes) ELSE 0,
                              !.bases = bases, !.frozen = frozen, !.builders = builders,
                              !.functions = functions, !.mro = r.mro]
    /\ UNCHANGED <<members, mutability, obj, last, trace, served, vin, vout, threads, cs, flag,
                   races, late>>

\* a class statement: the metaclass calls create_ators_subclass
Create(bases, frozen, builders, functions) ==
    /\ Len(classes) < MaxClasses
    /\ \E order \in Orders(InheritedNames(classes, bases)) :
           Created(bases, frozen, builders, functions,
                   create_ators_subclass(classes, descriptors, bases, frozen, builders,
                                         functions, order))

\* a class statement that create_ators_subclass refuses, in a program that
\* already holds MaxClasses types
Refuse(bases, frozen, builders, functions) ==
    /\ Len(classes) = MaxClasses
    /\ \E order \in Orders(InheritedNames(classes, bases)) :
           LET r == create_ators_subclass(classes, descriptors, bases, frozen, builders,
                                          functions, order)
           IN  ~r.ok /\ Created(bases, frozen, builders, functions, r)

\* AtorsBase::py_new for a type: the instance, or the refusal of a type with
\* more than u8::MAX members
AtorsBase_new(slots_count) ==
    IF slots_count > U8Max THEN [ok |-> FALSE, object |-> NoMade.object]
    ELSE [ok |-> TRUE, object |-> py_new(slots_count)]

Instantiated(type, r) ==
    /\ made' = [NoMade EXCEPT !.op = "new", !.ok = r.ok, !.cls = type, !.object = r.object]
    /\ UNCHANGED <<members, mutability, obj, last, trace, served, vin, vout, threads, cs, flag,
                   races, classes, descriptors, late>>

\* a call of a constructed type
NewInstance(type) ==
    Instantiated(type, AtorsBase_new(Cardinality(DOMAIN classes[type].members)))

InitMeta ==
    /\ members = TypeOf(PlainMember(0))
    /\ mutability = ClassMutability("Mutable", {})
    /\ obj = py_new(NMembers)
    /\ last = NoOutcome
    /\ trace = Tracing(FALSE)
    /\ served = [i \in Indexes |-> NoServed]
    /\ vin = NoInput
    /\ vout = NoResult
    /\ threads = NoThreads
    /\ cs = 0
    /\ flag = NoFlag
    /\ races = NoRaces
    /\ NoTypes

\* types that declare up to MaxNames attributes, none of them frozen
NextMeta ==
    \E bases \in BaseTuples, builders \in Declarations(Names) :
        Create(bases, FALSE, builders, {})

SpecMeta == InitMeta /\ [][NextMeta]_vars

\* the same types, and instances of them
NextInst ==
    \/ NextMeta
    \/ \E type \in 1..Len(classes) : NewInstance(type)

SpecInst == InitMeta /\ [][NextInst]_vars

\* types that declare no attribute, frozen or not
NextTypes ==
    \/ \E bases \in BaseTuples, frozen \in BOOLEAN : Create(bases, frozen, <<>>, {})
    \/ \E bases \in BaseTuples, frozen \in BOOLEAN : Refuse(bases, frozen, <<>>, {})

SpecTypes == InitMeta /\ [][NextTypes]_vars

\* most types of a program whose types declare many attributes
MaxWide == 3
\* half of the slot indexes
HalfIndexes == (U8Max + 1) \div 2
\* the attributes a wide type body declares: one more attribute, as many as
\* there are indexes or about so, or half of them under names that two
\* unrelated types do not share
WideDeclared ==
    {{U8Max + 1}, {U8Max + 2}, 1..U8Max, 1..HalfIndexes, (HalfIndexes + 1)..(U8Max + 1),
     (HalfIndexes + 1)..(U8Max + 2)}
WideBuilders(S) == [k \in 1..Cardinality(S) |-> PlainBuilder(Ascending(S)[k])]

\* types that declare many attributes, and an instance of the type that has
\* just been constructed
NextWide ==
    \/ \E bases \in BaseTuples, S \in WideDeclared :
           Len(classes) < MaxWide /\ Create(bases, FALSE, WideBuilders(S), {})
    \/ \E type \in 1..Len(classes) :
           made.op = "create" /\ made.cls = type /\ NewInstance(type)

SpecWide == InitMeta /\ [][NextWide]_vars

\* most method names, most types of a program whose attributes refer to
\* methods, most attributes such a type declares
MaxMethods == 2
MaxHookClasses == 2
MaxHookMembers == 2
MethodNames == 1..MaxMethods
\* the references to a method by name a builder can carry: one per hook,
\* default and coercer, and one per value validator
HookRefs == {<<Behaviors[b], meth_name>> : b \in 1..Len(Behaviors), meth_name \in MethodNames}
ValueValidatorRefs == {ref \in HookRefs : ref[1] = "value_validator"}
RefSets == {{}} \cup {{ref} : ref \in HookRefs} \cup {ValueValidatorRefs}
\* the references of an attribute declared next to another one
PairRefSets == {{}} \cup {{ref} : ref \in {r \in HookRefs : r[1] = "pre_getattr"}}
                   \cup {ValueValidatorRefs}
\* the builders of a type body, in the order in which they are visited: the
\* item validators the annotation translator builds carry no reference to a
\* method
HookBodies ==
    {<<>>} \cup {<<MemberBuilder(name, refs, {})>> : name \in 1..MaxHookMembers, refs \in RefSets}
        \cup {<<MemberBuilder(q[1], refs1, {}), MemberBuilder(q[2], refs2, {})>> :
                  q \in {p \in (1..MaxHookMembers) \X (1..MaxHookMembers) : p[1] # p[2]},
                  refs1 \in PairRefSets, refs2 \in PairRefSets}

\* types whose attributes refer to methods by name; the program ends with the
\* error of a class statement that is refused
NextHooks ==
    /\ Len(classes) < MaxHookClasses
    /\ made.ok
    /\ \E bases \in BaseTuples, builders \in HookBodies, functions \in SUBSET MethodNames :
           Create(bases, FALSE, builders, functions)

SpecHooks == InitMeta /\ [][NextHooks]_vars

(***************************************************************************)
(* One ForwardValidator used by several threads.                           *)
(***************************************************************************)
\* most calls of a thread on the validator
MaxLateCalls == 2
\* the calls that go through get_validator
LateOps == {"validate", "coerce"}
\* the outcomes of the closure: the validator built, or the error of the
\* evaluation of the forward reference
LateOutcomes == {"ok", "err"}

\* OnceLock::get
Initialized(l) == l.cell # "uninit"

\* variant: a cell that lets a thread run the closure while another does
MayInitializeRacy(l) == l.cell = "uninit"

\* OnceLock::get_or_init: the closure runs on a cell that is not initialized
\* and that no thread is initializing
MayInitialize(l) == l.cell = "uninit" /\ l.running = 0

\* get_validator returns to thread t what the cell holds
Returned(l, t) ==
    [l EXCEPT !.seen = Append(@, [thread |-> t, op |-> l.callers[t].op,
                                  outcome |-> l.cell, built |-> l.built]),
              !.callers[t].pc = "idle"]

LateUnchanged ==
    UNCHANGED <<members, mutability, obj, last, trace, served, vin, vout, threads, cs, flag,
                races, classes, descriptors, made>>

\* validate_type or coerce_value on the ForwardValidator calls get_validator:
\* get() on the cell, and on an empty cell the thread detaches
LateCall(t, op) ==
    /\ late.callers[t].pc = "idle"
    /\ late.callers[t].calls < MaxLateCalls
    /\ late' = IF Initialized(late)
               THEN Returned([late EXCEPT !.callers[t].op = op, !.callers[t].calls = @ + 1], t)
               ELSE [late EXCEPT !.callers[t].pc = "detached", !.callers[t].op = op,
                                 !.callers[t].calls = @ + 1]
    /\ LateUnchanged

\* lock.get_or_init: the thread finds the cell initialized, or starts the
\* closure, or waits for the thread that runs it
LateEnter(t) ==
    /\ late.callers[t].pc = "detached"
    /\ \/ Initialized(late) /\ late' = Returned(late, t)
       \/ /\ MayInitialize(late)
          /\ late' = [late EXCEPT !.running = t, !.resolutions = @ + 1,
                                  !.callers[t].pc = "resolving",
                                  !.callers[t].closure = late.resolutions + 1]
    /\ LateUnchanged

\* the closure ends: evaluate_forward_ref and build_validator_from_annotation
\* gave a validator or an error, which the cell keeps
LateResolved(t, outcome) ==
    /\ late.callers[t].pc = "resolving"
    /\ late' = Returned([late EXCEPT !.cell = outcome, !.built = late.callers[t].closure,
                                     !.running = 0], t)
    /\ LateUnchanged

NextLate ==
    \/ \E t \in 1..NThreads, op \in LateOps : LateCall(t, op)
    \/ \E t \in 1..NThreads : LateEnter(t)
    \/ \E t \in 1..NThreads, outcome \in LateOutcomes : LateResolved(t, outcome)

SpecLate == InitMeta /\ [][NextLate]_vars

(***************************************************************************)
(* Properties of the construction of types.                                *)
(***************************************************************************)
\* the slot index a type's mapping gives an attribute
IndexIn(cls, heap, type, name) == heap[cls[type].members[name]].index
MemberNames(cls, type) == DOMAIN cls[type].members
Unrelated(cls, a, b) ==
    /\ \A k \in 1..Len(cls[a].mro) : cls[a].mro[k] # b
    /\ \A k \in 1..Len(cls[b].mro) : cls[b].mro[k] # a
\* two different attributes that the types a and b place on one slot index
Collide(cls, heap, a, x, b, y) ==
    /\ x # y /\ x \in MemberNames(cls, a) /\ y \in MemberNames(cls, b)
    /\ IndexIn(cls, heap, a, x) = IndexIn(cls, heap, b, y)
\* a type that declares nothing has been made of two unrelated record types
Combined(m, cls) ==
    /\ m.op = "create" /\ m.ok /\ m.builders = <<>> /\ Len(m.bases) = 2
    /\ m.bases[1] # ators_base_ty /\ m.bases[2] # ators_base_ty
    /\ Unrelated(cls, m.bases[1], m.bases[2])

\* C12: a type that declares no attribute and combines two unrelated types
\* which place two different attributes on the same slot index maps these
\* attributes to two distinct indices, and the Member each base maps its
\* attribute to keeps its index.
C12_CollisionRepaired ==
    [][Combined(made', classes)
          => \A x, y \in Names :
                 Collide(classes, descriptors, made'.bases[1], x, made'.bases[2], y)
                     => /\ IndexIn(classes', descriptors', made'.cls, x)
                            # IndexIn(classes', descriptors', made'.cls, y)
                        /\ IndexIn(classes', descriptors', made'.bases[1], x)
                            = IndexIn(classes, descriptors, made'.bases[1], x)
                        /\ IndexIn(classes', descriptors', made'.bases[2], y)
                            = IndexIn(classes, descriptors, made'.bases[2], y)]_vars

\* such a type has been made: its bases both have the attribute on index 0,
\* the type has one of the two on index 1 through a clone in its namespace
C12_Witness ==
    /\ Combined(made, classes)
    /\ \E x, y \in Names :
           /\ Collide(classes, descriptors, made.bases[1], x, made.bases[2], y)
           /\ IndexIn(classes, descriptors, made.bases[1], x) = 0
           /\ {IndexIn(classes, descriptors, made.cls, x),
               IndexIn(classes, descriptors, made.cls, y)} = {0, 1}
           /\ DOMAIN classes[made.cls].dict \in {{x}, {y}}

RECURSIVE Ancestors(_, _)
Ancestors(cls, type) ==
    IF type = ators_base_ty THEN {}
    ELSE {type} \cup UNION {Ancestors(cls, cls[type].bases[i]) : i \in 1..Len(cls[type].bases)}
AncestorsOfBases(cls, bases) == UNION {Ancestors(cls, bases[i]) : i \in 1..Len(bases)}
FrozenBelow(cls, bases) == {t \in AncestorsOfBases(cls, bases) : cls[t].frozen}

\* C14: the construction of a type that is not declared frozen and has a
\* frozen record type among its direct or indirect bases fails (with the
\* error about the frozen ancestor when the bases can be linearized), no
\* constructed type that is not frozen has a frozen ancestor, and the
\* construction of a type declared frozen never fails with that error.
C14_FrozenInheritance ==
    /\ \A t \in 1..Len(classes) :
           ~classes[t].frozen => FrozenBelow(classes, classes[t].bases) = {}
    /\ made.op = "create" =>
           /\ (~made.frozen /\ FrozenBelow(classes, made.bases) # {})
                  => /\ ~made.ok
                     /\ made.mro.ok => made.err.kind = "is not frozen but inherit from"
           /\ made.frozen => made.err.kind # "is not frozen but inherit from"
           /\ (~made.ok /\ made.err.kind = "is not frozen but inherit from")
                  => FrozenBelow(classes, made.bases) # {}

\* a type not declared frozen was refused: its first base is not frozen, its
\* second base is and derives from a frozen type; and a frozen type with a
\* frozen base exists
C14_Witness ==
    /\ made.op = "create" /\ ~made.ok /\ ~made.frozen /\ Len(made.bases) = 2
    /\ made.err.kind = "is not frozen but inherit from"
    /\ ~classes[made.bases[1]].frozen
    /\ classes[made.bases[2]].frozen
    /\ \E t \in 1..Len(classes) :
           /\ classes[made.bases[2]].bases = <<t>>
           /\ classes[t].frozen

\* the position of a type in a linearization
Position(mro, type) == CHOOSE k \in 1..Len(mro) : mro[k] = type
Heads(inputs) == {inputs[i][1] : i \in 1..Len(inputs)}
Qualifying(inputs) == {t \in Heads(inputs) : ~InSomeTail(inputs, t)}
\* the result keeps the order of the linearization imro
Compatible(mro, imro) ==
    \A a, b \in 1..Len(imro) :
        a < b => /\ \E k \in 1..Len(mro) : mro[k] = imro[a]
                 /\ \E k \in 1..Len(mro) : mro[k] = imro[b]
                 /\ Position(mro, imro[a]) < Position(mro, imro[b])
\* every ancestor of the bases, AtorsBase included
AllAncestors(cls, bases) == AncestorsOfBases(cls, bases) \cup {ators_base_ty}
Linearized == made.op = "create"

\* C17: the linearization of the bases of a class statement starts from the
\* linearizations of the bases; every step of it selects a type that is the
\* head of an input and in the tail of none; it takes at most one step per
\* ancestor and one more; when it succeeds its result holds every ancestor
\* of the bases exactly once, in an order compatible with the linearization
\* of every base; and it fails exactly when it comes to a step where no head
\* qualifies, the construction then failing with the inconsistent hierarchy
\* error.
C17_Linearization ==
    Linearized =>
        LET m == made.mro
            lins == BaseLinearizations(classes, made.bases)
        IN  /\ m.log[1].inputs = lins
            /\ \A k \in 1..Len(m.log) :
                   /\ m.log[k].type # NoType => m.log[k].type \in Qualifying(m.log[k].inputs)
                   /\ m.log[k].type = NoType => Qualifying(m.log[k].inputs) = {}
                   /\ \A i \in 1..Len(m.log[k].inputs) : m.log[k].inputs[i] # <<>>
            /\ Len(m.log) <= Cardinality(AllAncestors(classes, made.bases)) + 1
            /\ m.ok <=> \A k \in 1..Len(m.log) : Qualifying(m.log[k].inputs) # {}
            /\ m.ok => /\ {m.mro[k] : k \in 1..Len(m.mro)} = AllAncestors(classes, made.bases)
                       /\ Len(m.mro) = Cardinality(AllAncestors(classes, made.bases))
                       /\ \A i \in 1..Len(lins) : Compatible(m.mro, lins[i])
                       /\ m.mro = [k \in 1..Len(m.log) |-> m.log[k].type]
            /\ ~m.ok => /\ ~made.ok
                        /\ made.err.kind = "Inconsistent class hierarchy"
                        /\ m.log[Len(m.log)].type = NoType
            /\ made.err.kind = "Inconsistent class hierarchy" => ~m.ok

\* the bases X and Y of a class statement derive from the same two types in
\* opposite orders: X is selected, then Y although it is not the head of the
\* first input, then no head qualifies and the construction fails
C17_Witness ==
    /\ Linearized /\ ~made.mro.ok /\ ~made.ok /\ Len(made.bases) = 2
    /\ Len(made.mro.log) = 3
    /\ made.mro.log[1].type = made.bases[1]
    /\ made.mro.log[2].type = made.bases[2]
    /\ made.mro.log[2].inputs[1][1] # made.bases[2]
    /\ Len(classes[made.bases[1]].bases) = 2

AttributeCount(cls, type) == Cardinality(DOMAIN cls[type].members)
\* the attributes a class statement asks for: those its bases bring, the
\* colliding ones included, and those it declares
AttributesAsked(cls, m) ==
    InheritedNames(cls, m.bases) \cup {m.builders[k].name : k \in 1..Len(m.builders)}

\* C15: no constructed type has more than 255 attributes, and a class
\* statement whose inherited, collision-resolved and declared attributes are
\* more than 255 fails.
C15_AtMost255 ==
    /\ \A t \in 1..Len(classes) : AttributeCount(classes, t) <= U8Max
    /\ (made.op = "create" /\ Cardinality(AttributesAsked(classes, made)) > U8Max) => ~made.ok

\* C16: the slot array of a new instance has as many slots as its type has
\* attributes.
C16_SlotsMatchAttributes ==
    (made.op = "new" /\ made.ok)
        => Cardinality(DOMAIN made.object.slots) = AttributeCount(classes, made.cls)

\* the method names a class statement accumulates, and the references of a
\* builder that name none of them
Accumulated(cls, m) == BaseMethods(cls, m.bases) \cup m.functions
Dangling(cls, m, k) == {ref \in m.builders[k].refs : ref[2] \notin Accumulated(cls, m)}
FirstDangling(cls, m) ==
    CHOOSE k \in 1..Len(m.builders) :
        /\ Dangling(cls, m, k) # {}
        /\ \A j \in 1..(k - 1) : Dangling(cls, m, j) = {}
BehaviorRank(behavior) == CHOOSE b \in 1..Len(Behaviors) : Behaviors[b] = behavior

LateCalls == {t \in 1..NThreads : late.callers[t].calls > 0}

\* C19: the closure that resolves the forward reference of one
\* ForwardValidator is started at most once, and not before a validate or
\* coerce call has been made; every call that has returned got what this one
\* resolution left in the cell, the validator it built or its error.
C19_ResolvedOnce ==
    /\ late.resolutions <= 1
    /\ LateCalls = {} => late.resolutions = 0 /\ ~Initialized(late)
    /\ Initialized(late) => late.resolutions = 1 /\ late.built = 1
    /\ \A i \in 1..Len(late.seen) :
           /\ late.seen[i].outcome \in LateOutcomes
           /\ late.seen[i].outcome = late.cell
           /\ late.seen[i].built = 1

\* the resolution failed once and both threads, by validate and by coerce
\* calls, got this failure, the last of them from the cell
C19_Witness ==
    /\ late.cell = "err" /\ late.resolutions = 1
    /\ Len(late.seen) >= 3
    /\ {late.seen[i].thread : i \in 1..Len(late.seen)} = 1..NThreads
    /\ {late.seen[i].op : i \in 1..Len(late.seen)} = LateOps
    /\ \A t \in 1..NThreads : late.callers[t].pc = "idle"

\* attribute lookup on a type: the entry for `name` in the namespace of the
\* first type of its __mro__ that has one
Holders(cls, type, name) ==
    {k \in 1..Len(cls[type].mro) :
        /\ cls[type].mro[k] # ators_base_ty
        /\ name \in DOMAIN cls[cls[type].mro[k]].dict}
Lookup(cls, type, name) ==
    cls[cls[type].mro[FirstFree(Holders(cls, type, name))]].dict[name]

\* C26: for every type constructed and every attribute name of it, lookup of
\* the name through the namespaces of the type and of its ancestors reaches
\* the Member recorded under that name in __ators_members__ of the type, and
\* the Members reached for two different names have different slot indexes.
C26_LookupMatchesMapping ==
    \A type \in 1..Len(classes) :
        /\ \A n \in DOMAIN classes[type].members :
               /\ Holders(classes, type, n) # {}
               /\ Lookup(classes, type, n) = classes[type].members[n]
        /\ \A n1, n2 \in DOMAIN classes[type].members :
               (n1 # n2 /\ Holders(classes, type, n1) # {} /\ Holders(classes, type, n2) # {})
                    => descriptors[Lookup(classes, type, n1)].index
                            # descriptors[Lookup(classes, type, n2)].index

\* the slot indexes of the Members reachable on a type: those recorded in
\* __ators_members__ and those attribute lookup reaches
ReachableIndexes(cls, heap, type) ==
    {heap[cls[type].members[n]].index : n \in DOMAIN cls[type].members}
        \cup {heap[Lookup(cls, type, n)].index :
                  n \in {a \in DOMAIN cls[type].members : Holders(cls, type, a) # {}}}

\* C29: every instance made of a constructed type has a slot for the slot
\* index of every Member reachable on the type (a type with more than 255
\* attributes has no instance).
C29_IndexesInBounds ==
    /\ (made.op = "new" /\ made.ok)
            => /\ AttributeCount(classes, made.cls) <= U8Max
               /\ ReachableIndexes(classes, descriptors, made.cls)
                      \subseteq DOMAIN made.object.slots
               /\ \A i \in ReachableIndexes(classes, descriptors, made.cls) :
                      i < Cardinality(DOMAIN made.object.slots)
    /\ (made.op = "new" /\ ~made.ok) => AttributeCount(classes, made.cls) > U8Max

\* an instance has been made of a subtype of a type that had a collision
\* repaired, and the largest index reachable on it is the last but one of
\* its slots
C29_Witness ==
    /\ made.op = "new" /\ made.ok
    /\ \E b \in 1..Len(classes[made.cls].bases) :
           /\ classes[made.cls].bases[b] # ators_base_ty
           /\ \E n \in DOMAIN classes[classes[made.cls].bases[b]].dict :
                  n \notin classes[classes[made.cls].bases[b]].specific
    /\ Cardinality(DOMAIN made.object.slots) - 2
            \in ReachableIndexes(classes, descriptors, made.cls)

====
